---- MODULE Spec2Model ----
(***************************************************************************)
(* Fleet management: the lane reservation store (TrafficManager), the      *)
(* time-aware route search (RobotPathFinder) and the robot controller      *)
(* (Robot), modelled from src/src.                                         *)
(*                                                                         *)
(* Times are whole seconds, vertex ids are the vertex indices (the code    *)
(* uses str(index); for single digits the string order used by the heap   *)
(* is the numeric order), a lane id "a-b" is the pair <<a, b>>.            *)
(***************************************************************************)
EXTENDS Integers, Sequences, FiniteSets, Bags, TLC

\* ------------------------------------------------------------------ bounds

\* Largest time value (clock reading or reservation end) of the store runs.
MaxTime == 3

\* Largest number of reservations the store holds at a time.
MaxRes == 2

\* Largest number of reservations the store holds in the route-search runs.
MaxSearchRes == 5

\* Largest time value (clock reading or reservation end) of the route-search runs.
MaxSearchTime == 3

\* Largest clock reading of the empty-store search runs.
MaxPlainTime == 3

\* The first reading of the system clock (time.time()); it lies beyond every
\* arrival time a search started at the store's initial clock 0 can project.
WallStart == 5

\* The last reading of the system clock the model explores.
MaxWall == 6

\* Largest number of assign_task calls in a run.
MaxTasks == 2

\* Position steps per lane traversal (the code takes max(10, distance/5)).
StepsPerLane == 1

\* Pending callbacks one robot may have when a task is assigned to it.
MaxTimers == 2

\* Largest number of reservations kept on one lane in the fleet runs.
MaxLaneRes == 4

\* Nesting depth of move_to calls at which the interpreter's recursion limit
\* is taken to be hit.
MaxDepth == 1
MaxQueue == 3
MaxFileVertices == 2
MantissaBits == 13
MaxFileLanes == 2
MaxArrival == 2

\* ------------------------------------------------------- navigation graph

\* The level file the program was started with (the index into Levels).
VARIABLES level

\* The level files of the model: vertex index -> record, and the lane list
\* in file order, <<from, to>>.
\*   1: four collinear waypoints; 0 and 2 are spawn points, 3 is the charger.
\*   2: the unit square with the one-way cycle 0 -> 1 -> 2 -> 3 -> 0.
\*   3: five collinear waypoints where the vertex nearest the goal 4 (vertex 2)
\*      lies on the longer of the two routes from 0.
\*   4: four collinear waypoints with two chargers, the farther one (2)
\*      first in the file; 0 and 2 are spawn points.
\*   5: three waypoints on the diagonal, 0 -> 1 -> 2; no lane has a whole
\*      length.
\*   6: a fork 0 -> 2 -> 3 and 0 -> 1 -> 3 on a line, the lane to 2 first in
\*      the file, and a waypoint 4 beside 0 that no lane reaches; 1 and 2
\*      are equally far from 4.
Levels ==
    << [vertices |->
          (0 :> [x |-> 1, y |-> 0, is_charger |-> FALSE]) @@
          (1 :> [x |-> 2, y |-> 0, is_charger |-> FALSE]) @@
          (2 :> [x |-> 0, y |-> 0, is_charger |-> FALSE]) @@
          (3 :> [x |-> 3, y |-> 0, is_charger |-> TRUE]),
        lanes |-> << <<0, 1>>, <<1, 0>>, <<0, 2>>, <<2, 1>>, <<1, 3>> >>],
       [vertices |->
          (0 :> [x |-> 0, y |-> 0, is_charger |-> FALSE]) @@
          (1 :> [x |-> 1, y |-> 0, is_charger |-> FALSE]) @@
          (2 :> [x |-> 1, y |-> 1, is_charger |-> FALSE]) @@
          (3 :> [x |-> 0, y |-> 1, is_charger |-> FALSE]),
        lanes |-> << <<0, 1>>, <<1, 2>>, <<2, 3>>, <<3, 0>> >>],
       [vertices |->
          (0 :> [x |-> 3, y |-> 0, is_charger |-> FALSE]) @@
          (1 :> [x |-> 0, y |-> 0, is_charger |-> FALSE]) @@
          (2 :> [x |-> 6, y |-> 0, is_charger |-> FALSE]) @@
          (3 :> [x |-> 1, y |-> 0, is_charger |-> FALSE]) @@
          (4 :> [x |-> 7, y |-> 0, is_charger |-> FALSE]),
        lanes |-> << <<0, 1>>, <<1, 4>>, <<0, 2>>, <<2, 3>>, <<3, 4>> >>],
       [vertices |->
          (0 :> [x |-> 0, y |-> 0, is_charger |-> FALSE]) @@
          (1 :> [x |-> 1, y |-> 0, is_charger |-> FALSE]) @@
          (2 :> [x |-> 4, y |-> 0, is_charger |-> TRUE]) @@
          (3 :> [x |-> 2, y |-> 0, is_charger |-> TRUE]),
        lanes |-> << <<0, 1>>, <<1, 3>>, <<3, 2>> >>],
       [vertices |->
          (0 :> [x |-> 0, y |-> 0, is_charger |-> FALSE]) @@
          (1 :> [x |-> 1, y |-> 1, is_charger |-> FALSE]) @@
          (2 :> [x |-> 4, y |-> 4, is_charger |-> FALSE]),
        lanes |-> << <<0, 1>>, <<1, 2>> >>],
       [vertices |->
          (0 :> [x |-> 2, y |-> 0, is_charger |-> FALSE]) @@
          (1 :> [x |-> 1, y |-> 0, is_charger |-> FALSE]) @@
          (2 :> [x |-> 3, y |-> 0, is_charger |-> FALSE]) @@
          (3 :> [x |-> 4, y |-> 0, is_charger |-> FALSE]) @@
          (4 :> [x |-> 2, y |-> 1, is_charger |-> FALSE]),
        lanes |-> << <<0, 2>>, <<0, 1>>, <<1, 3>>, <<2, 3>> >>] >>

\* The levels on which every lane has a whole length.
WholeLevels == {1, 2, 3, 4, 6}

\* self.vertices of the level loaded by NavigationGraph.__init__.
vertices == Levels[level].vertices

\* self.lanes of the level loaded by NavigationGraph.__init__.
lanes == Levels[level].lanes

VertexIds == DOMAIN vertices

LaneIds == {lanes[i] : i \in DOMAIN lanes}

\* math.sqrt on the perfect squares the level produces.
Sqrt(n) == CHOOSE k \in 0..n : k * k = n

\* (from.x - to.x)**2 + (from.y - to.y)**2
SquaredDistance(from_id, to_id) ==
    (vertices[from_id].x - vertices[to_id].x) * (vertices[from_id].x - vertices[to_id].x)
    + (vertices[from_id].y - vertices[to_id].y) * (vertices[from_id].y - vertices[to_id].y)

\* The length of a lane; every lane of the levels has a whole length.
calculate_distance(from_id, to_id) == Sqrt(SquaredDistance(from_id, to_id))

\* heuristic that returns ten times the distance.
heuristic_inflated(node, goal) == 100 * SquaredDistance(node, goal)

\* The straight-line distance to the goal, which need not be whole: the
\* distance is kept exactly, as its square.
heuristic(node, goal) == SquaredDistance(node, goal)

\* ------------------------------------------------------ rounded distances

\* A float of the program keeps 53 significant bits and every operation
\* rounds its exact result to the nearest such number (ties to even). The
\* rounded distances keep MantissaBits significant bits and round the same
\* way; a value of 1 or more is written as a whole number of Units.
Unit == 2 ^ (MantissaBits - 1)

\* The largest k in lo..hi with k * k <= n.
RECURSIVE FloorSqrt(_, _, _)
FloorSqrt(n, lo, hi) ==
    IF lo = hi THEN lo
    ELSE LET mid == (lo + hi + 1) \div 2
         IN IF mid * mid <= n THEN FloorSqrt(n, mid, hi) ELSE FloorSqrt(n, lo, mid - 1)

\* The largest e with base^e <= n, for n >= 1.
RECURSIVE FloorLog(_, _)
FloorLog(base, n) == IF n < base THEN 0 ELSE 1 + FloorLog(base, n \div base)

\* math.sqrt of the whole number n, rounded: the mantissa m of the root is
\* cut off below its last kept bit and goes up when the root lies above
\* the midpoint of m and m + 1.
float_sqrt(n) ==
    IF n = 0 THEN 0
    ELSE LET e      == FloorLog(4, n)
             scaled == (n * Unit * Unit) \div (4 ^ e)
             m      == FloorSqrt(scaled, 0, 2 * Unit)
         IN (IF 4 * scaled > (2 * m + 1) * (2 * m + 1) THEN m + 1 ELSE m) * (2 ^ e)

\* a + b on two floats of 0 or of 1 and more, rounded.
float_add(a, b) ==
    IF a + b < Unit THEN a + b
    ELSE LET ulp == 2 ^ FloorLog(2, (a + b) \div Unit)
             q   == (a + b) \div ulp
             r   == (a + b) % ulp
         IN (IF 2 * r > ulp \/ (2 * r = ulp /\ q % 2 = 1) THEN q + 1 ELSE q) * ulp

\* calculate_distance in floats: the differences, squares and their sum
\* are whole numbers below 2^MantissaBits and exact, the root is rounded.
calculate_distance_float(from_id, to_id) == float_sqrt(SquaredDistance(from_id, to_id))

\* heuristic in floats.
heuristic_float(node, goal) == calculate_distance_float(node, goal)

\* self.graph[v]: the outgoing (to, cost) pairs of v in lane-list order.
RECURSIVE Adjacency(_, _)
Adjacency(v, i) ==
    IF i > Len(lanes) THEN <<>>
    ELSE IF lanes[i][1] = v
         THEN << <<lanes[i][2], calculate_distance(lanes[i][1], lanes[i][2])>> >>
              \o Adjacency(v, i + 1)
         ELSE Adjacency(v, i + 1)

\* self.reverse_graph[v]: the incoming (from, cost) pairs of v.
RECURSIVE ReverseAdjacency(_, _)
ReverseAdjacency(v, i) ==
    IF i > Len(lanes) THEN <<>>
    ELSE IF lanes[i][2] = v
         THEN << <<lanes[i][1], calculate_distance(lanes[i][1], lanes[i][2])>> >>
              \o ReverseAdjacency(v, i + 1)
         ELSE ReverseAdjacency(v, i + 1)

reverse_graph(v) == ReverseAdjacency(v, 1)

graph(v) == Adjacency(v, 1)

\* ------------------------------------------------------ reservation store

Robots == {1, 2}

\* A lane id with the vertices the other way round.
get_lane_id_reversed(from_vertex, to_vertex) == <<to_vertex, from_vertex>>

\* Every robot is spawned with speed 1.0 + random()*0.5; the model takes 1.
RobotSpeed == 1

get_lane_id(from_vertex, to_vertex) == <<from_vertex, to_vertex>>

\* lane_id.split('-')[1] + '-' + lane_id.split('-')[0]
OppositeLane(lane_id) == <<lane_id[2], lane_id[1]>>

Max2(a, b) == IF a > b THEN a ELSE b
Min2(a, b) == IF a < b THEN a ELSE b

\* Overlap that only looks whether the window starts inside the reservation.
OverlapStartInside(start_time, end_time, res_start, res_end) ==
    res_start <= start_time /\ start_time < res_end

\* max(start_time, res_start) < min(end_time, res_end)
Overlap(start_time, end_time, res_start, res_end) ==
    Max2(start_time, res_start) < Min2(end_time, res_end)

\* The dict after "if lane_id not in self.lane_reservations: ... = []".
WithLaneKey(lr, lane_id) ==
    IF lane_id \in DOMAIN lr THEN lr ELSE lr @@ (lane_id :> <<>>)

\* BlockedByOpposite with the opposite key built without swapping the ends.
BlockedByOppositeUnswapped(lr, lane_id, robot_id, start_time, end_time) ==
    \E i \in DOMAIN lr[lane_id] :
        Overlap(start_time, end_time, lr[lane_id][i][2], lr[lane_id][i][3])

\* The first loop of reserve_lane: any reservation on the opposite lane,
\* whoever holds it, that overlaps the window.
BlockedByOpposite(lr, lane_id, robot_id, start_time, end_time) ==
    /\ OppositeLane(lane_id) \in DOMAIN lr
    /\ \E i \in DOMAIN lr[OppositeLane(lane_id)] :
          Overlap(start_time, end_time,
                  lr[OppositeLane(lane_id)][i][2], lr[OppositeLane(lane_id)][i][3])

\* BlockedBySameLane in which only a holder with a greater id blocks.
BlockedBySameLaneOrdered(lr, lane_id, robot_id, start_time, end_time) ==
    \E i \in DOMAIN lr[lane_id] :
        /\ lr[lane_id][i][1] > robot_id
        /\ Overlap(start_time, end_time, lr[lane_id][i][2], lr[lane_id][i][3])

\* The second loop of reserve_lane: a reservation of another robot on the
\* lane itself that overlaps the window.
BlockedBySameLane(lr, lane_id, robot_id, start_time, end_time) ==
    \E i \in DOMAIN lr[lane_id] :
        /\ lr[lane_id][i][1] # robot_id
        /\ Overlap(start_time, end_time, lr[lane_id][i][2], lr[lane_id][i][3])

\* reserve_lane that assigns the lane's list instead of appending to it.
reserve_lane_overwriting(lr, ld, lane_id, robot_id, start_time, end_time) ==
    LET lr1 == WithLaneKey(lr, lane_id) IN
    IF \/ BlockedByOpposite(lr1, lane_id, robot_id, start_time, end_time)
       \/ BlockedBySameLane(lr1, lane_id, robot_id, start_time, end_time)
    THEN [ret |-> FALSE, lr |-> lr1, ld |-> ld]
    ELSE [ret |-> TRUE,
          lr  |-> [lr1 EXCEPT ![lane_id] = << <<robot_id, start_time, end_time>> >>],
          ld  |-> IF lane_id \in DOMAIN ld
                  THEN [ld EXCEPT ![lane_id] = robot_id]
                  ELSE ld @@ (lane_id :> robot_id)]

\* reserve_lane: the returned flag and the two dicts after the call.
reserve_lane(lr, ld, lane_id, robot_id, start_time, end_time) ==
    LET lr1 == WithLaneKey(lr, lane_id) IN
    IF BlockedByOpposite(lr1, lane_id, robot_id, start_time, end_time)
    THEN [ret |-> FALSE, lr |-> lr1, ld |-> ld]
    ELSE IF BlockedBySameLane(lr1, lane_id, robot_id, start_time, end_time)
    THEN [ret |-> FALSE, lr |-> lr1, ld |-> ld]
    ELSE [ret |-> TRUE,
          lr  |-> [lr1 EXCEPT ![lane_id] = Append(@, <<robot_id, start_time, end_time>>)],
          ld  |-> IF lane_id \in DOMAIN ld
                  THEN [ld EXCEPT ![lane_id] = robot_id]
                  ELSE ld @@ (lane_id :> robot_id)]

\* KeepReservation with >= for >.
KeepReservationInclusive(res, now) == res[3] >= now

\* The filter of update_time: res[2] > self.current_time.
KeepReservation(res, now) == res[3] > now

PruneLane(reservations, now) ==
    SelectSeq(reservations, LAMBDA res : KeepReservation(res, now))

\* update_time: the clock and the two dicts after the call.
update_time(lr, ld, new_time) ==
    LET kept == {l \in DOMAIN lr : PruneLane(lr[l], new_time) # <<>>} IN
    [ct |-> new_time,
     lr |-> [l \in kept |-> PruneLane(lr[l], new_time)],
     ld |-> [l \in (DOMAIN ld) \ ((DOMAIN lr) \ kept) |-> ld[l]]]

\* ----------------------------------------------------------- route search

\* Python's list comparison (used when two heap entries tie on f and vertex).
RECURSIVE ListLess(_, _)
ListLess(a, b) ==
    IF a = <<>> THEN b # <<>>
    ELSE IF b = <<>> THEN FALSE
    ELSE IF a[1] # b[1] THEN a[1] < b[1]
    ELSE ListLess(Tail(a), Tail(b))

\* An f_score new_cost + h_score, kept exactly as [c, h2] for c + sqrt(h2).
FScore(new_cost, h_score) == [c |-> new_cost, h2 |-> h_score]

\* a.c + sqrt(a.h2) < b.c + sqrt(b.h2), decided in whole numbers.
FLess(a, b) ==
    LET d == b.c - a.c IN
    IF d >= 0
    THEN LET l == a.h2 - d * d - b.h2 IN
         l < 0 \/ l * l < 4 * d * d * b.h2
    ELSE LET r == b.h2 - a.h2 - d * d IN
         r > 0 /\ 4 * d * d * a.h2 < r * r

\* Tuple order of the heap entries (f_score, current, path, cost, arrival_times).
EntryLess(a, b) ==
    IF FLess(a.f, b.f) \/ FLess(b.f, a.f) THEN FLess(a.f, b.f)
    ELSE IF a.v # b.v THEN a.v < b.v
    ELSE IF a.path # b.path THEN ListLess(a.path, b.path)
    ELSE IF a.cost # b.cost THEN a.cost < b.cost
    ELSE ListLess(a.arr, b.arr)

\* heappop: the least entry of the open set.
HeapMin(open) == CHOOSE a \in open : \A b \in open \ {a} : EntryLess(a, b)

Last(seq) == seq[Len(seq)]

\* What a heappop took: the insertion number of the entry, and the
\* insertion numbers of the entries of the heap with the same f_score.
Popped(cur, open) ==
    [v    |-> cur.v,
     seq  |-> cur.seq,
     ties |-> {e.seq : e \in {x \in open : ~FLess(x.f, cur.f) /\ ~FLess(cur.f, x.f)}}]

\* The "for next_node, lane_distance in neighbors" loop of one expansion,
\* from neighbour i on. st = [open, closed, g, lr, ld].
RECURSIVE ExpandNeighbors(_, _, _, _, _, _, _)
ExpandNeighbors(st, cur, neighbors, i, goal, robot_id, speed) ==
    IF i > Len(neighbors) THEN st
    ELSE
      LET next_node     == neighbors[i][1]
          lane_distance == neighbors[i][2]
      IN
      IF next_node \in st.closed
      THEN ExpandNeighbors(st, cur, neighbors, i + 1, goal, robot_id, speed)
      ELSE
        LET current_time      == Last(cur.arr)
            travel_time       == lane_distance \div speed
            estimated_arrival == current_time + travel_time
            lane_id           == get_lane_id(cur.v, next_node)
            r        == reserve_lane(st.lr, st.ld, lane_id, robot_id,
                                     current_time, estimated_arrival)
            new_cost == cur.cost + lane_distance
            better   == next_node \notin DOMAIN st.g \/ new_cost < st.g[next_node]
            st1 ==
              IF r.ret /\ better
              THEN [st EXCEPT
                      !.lr = r.lr, !.ld = r.ld,
                      !.made = Append(@, <<lane_id, current_time, estimated_arrival>>),
                      !.tried = Append(@, lane_id),
                      !.pushed = @ + 1,
                      !.g = IF next_node \in DOMAIN st.g
                            THEN [st.g EXCEPT ![next_node] = new_cost]
                            ELSE st.g @@ (next_node :> new_cost),
                      !.open = @ \cup {[f    |-> FScore(new_cost, heuristic(next_node, goal)),
                                        v    |-> next_node,
                                        path |-> Append(cur.path, next_node),
                                        cost |-> new_cost,
                                        arr  |-> Append(cur.arr, estimated_arrival),
                                        seq  |-> st.pushed]}]
              ELSE [st EXCEPT
                      !.lr = r.lr, !.ld = r.ld,
                      !.tried = Append(@, lane_id),
                      !.made = IF r.ret
                               THEN Append(@, <<lane_id, current_time, estimated_arrival>>)
                               ELSE @]
        IN ExpandNeighbors(st1, cur, neighbors, i + 1, goal, robot_id, speed)

\* A failure value that keeps the start time in the arrival times.
NoRouteWithStart(lr, ld) ==
    [path |-> <<>>, cost |-> 0, arr |-> <<0>>, lr |-> lr, ld |-> ld, made |-> <<>>,
     tried |-> <<>>, expanded |-> <<>>, pops |-> <<>>]

\* "return [], 0.0, []" after the loop, with the store as the search left it.
NoRoute(lr, ld) ==
    [path |-> <<>>, cost |-> 0, arr |-> <<>>, lr |-> lr, ld |-> ld, made |-> <<>>,
     tried |-> <<>>, expanded |-> <<>>, pops |-> <<>>]

RECURSIVE SearchLoop(_, _, _, _)

\* A loop without the "if current in closed_set: continue" test.
SearchLoopReexpanding(st, goal, robot_id, speed) ==
    IF st.open = {}
    THEN [NoRoute(st.lr, st.ld) EXCEPT !.made = st.made, !.tried = st.tried,
                                       !.expanded = st.expanded, !.pops = st.pops]
    ELSE
      LET cur   == HeapMin(st.open)
          open1 == st.open \ {cur}
          pops1 == Append(st.pops, Popped(cur, st.open))
      IN
      IF cur.v = goal
      THEN [path |-> cur.path, cost |-> cur.cost, arr |-> cur.arr,
            lr |-> st.lr, ld |-> st.ld, made |-> st.made, tried |-> st.tried,
            expanded |-> st.expanded, pops |-> pops1]
      ELSE SearchLoop(
             ExpandNeighbors([st EXCEPT !.open = open1, !.closed = @ \cup {cur.v},
                                        !.expanded = Append(@, cur.v), !.pops = pops1],
                             cur, graph(cur.v), 1, goal, robot_id, speed),
             goal, robot_id, speed)

\* The "while open_set" loop. expanded lists the vertices whose neighbors
\* were looked at, tried the lanes passed to reserve_lane, pops the heappops.
SearchLoop(st, goal, robot_id, speed) ==
    IF st.open = {}
    THEN [NoRoute(st.lr, st.ld) EXCEPT !.made = st.made, !.tried = st.tried,
                                       !.expanded = st.expanded, !.pops = st.pops]
    ELSE
      LET cur   == HeapMin(st.open)
          open1 == st.open \ {cur}
          pops1 == Append(st.pops, Popped(cur, st.open))
      IN
      IF cur.v = goal
      THEN [path |-> cur.path, cost |-> cur.cost, arr |-> cur.arr,
            lr |-> st.lr, ld |-> st.ld, made |-> st.made, tried |-> st.tried,
            expanded |-> st.expanded, pops |-> pops1]
      ELSE IF cur.v \in st.closed
      THEN SearchLoop([st EXCEPT !.open = open1, !.pops = pops1], goal, robot_id, speed)
      ELSE SearchLoop(
             ExpandNeighbors([st EXCEPT !.open = open1, !.closed = @ \cup {cur.v},
                                        !.expanded = Append(@, cur.v), !.pops = pops1],
                             cur, graph(cur.v), 1, goal, robot_id, speed),
             goal, robot_id, speed)

\* A search that gives back the reservations it made when it finds no route.
find_shortest_path_rolling_back(lr, ld, start, goal, robot_id, start_time, speed) ==
    IF start \notin VertexIds \/ goal \notin VertexIds
    THEN NoRoute(lr, ld)
    ELSE LET s == SearchLoop(
                    [open   |-> {[f |-> FScore(0, 0), v |-> start, path |-> <<start>>,
                                  cost |-> 0, arr |-> <<start_time>>, seq |-> 0]},
                     closed |-> {},
                     g      |-> (start :> 0),
                     lr     |-> lr,
                     ld     |-> ld,
                     made   |-> <<>>,
                     tried  |-> <<>>, expanded |-> <<>>, pops |-> <<>>, pushed |-> 1],
                    goal, robot_id, speed)
         IN IF s.path = <<>> THEN [s EXCEPT !.lr = lr, !.ld = ld] ELSE s

\* RobotPathFinder.find_shortest_path: the route, its cost, its arrival
\* times, and the store's dicts after the reservations made on the way;
\* made lists the reserve_lane calls of the search that returned True, as
\* <<lane_id, start_time, end_time>>.
find_shortest_path(lr, ld, start, goal, robot_id, start_time, speed) ==
    IF start \notin VertexIds \/ goal \notin VertexIds
    THEN NoRoute(lr, ld)
    ELSE SearchLoop(
           [open   |-> {[f |-> FScore(0, 0), v |-> start, path |-> <<start>>, cost |-> 0,
                         arr |-> <<start_time>>, seq |-> 0]},
            closed |-> {},
            g      |-> (start :> 0),
            lr     |-> lr,
            ld     |-> ld,
            made   |-> <<>>,
            tried  |-> <<>>, expanded |-> <<>>, pops |-> <<>>, pushed |-> 1],
           goal, robot_id, speed)

\* --------------------------------------- reservation-free search (A*algorithm.py)

\* Tuple order of the heap entries (f_score, current, path, cost).
PlainEntryLess(a, b) ==
    IF FLess(a.f, b.f) \/ FLess(b.f, a.f) THEN FLess(a.f, b.f)
    ELSE IF a.v # b.v THEN a.v < b.v
    ELSE IF a.path # b.path THEN ListLess(a.path, b.path)
    ELSE a.cost < b.cost

PlainHeapMin(open) == CHOOSE a \in open : \A b \in open \ {a} : PlainEntryLess(a, b)

\* The "for next_node, lane_cost in neighbors" loop. st = [open, closed, g].
RECURSIVE PlainExpandNeighbors(_, _, _, _, _)
PlainExpandNeighbors(st, cur, neighbors, i, goal) ==
    IF i > Len(neighbors) THEN st
    ELSE
      LET next_node == neighbors[i][1]
          lane_cost == neighbors[i][2]
          new_cost  == cur.cost + lane_cost
      IN
      IF next_node \in st.closed
      THEN PlainExpandNeighbors(st, cur, neighbors, i + 1, goal)
      ELSE IF next_node \notin DOMAIN st.g \/ new_cost < st.g[next_node]
      THEN PlainExpandNeighbors(
             [st EXCEPT
                !.g = IF next_node \in DOMAIN st.g
                      THEN [st.g EXCEPT ![next_node] = new_cost]
                      ELSE st.g @@ (next_node :> new_cost),
                !.open = @ \cup {[f    |-> FScore(new_cost, heuristic(next_node, goal)),
                                  v    |-> next_node,
                                  path |-> Append(cur.path, next_node),
                                  cost |-> new_cost]}],
             cur, neighbors, i + 1, goal)
      ELSE PlainExpandNeighbors(st, cur, neighbors, i + 1, goal)

\* The "while open_set" loop.
RECURSIVE PlainSearchLoop(_, _)
PlainSearchLoop(st, goal) ==
    IF st.open = {}
    THEN [path |-> <<>>, cost |-> 0]
    ELSE
      LET cur   == PlainHeapMin(st.open)
          open1 == st.open \ {cur}
      IN
      IF cur.v = goal
      THEN [path |-> cur.path, cost |-> cur.cost]
      ELSE IF cur.v \in st.closed
      THEN PlainSearchLoop([st EXCEPT !.open = open1], goal)
      ELSE PlainSearchLoop(
             PlainExpandNeighbors([st EXCEPT !.open = open1, !.closed = @ \cup {cur.v}],
                                  cur, graph(cur.v), 1, goal),
             goal)

\* RobotPathFinder.find_shortest_path of A*algorithm.py: the route and its cost.
plain_find_shortest_path(start, goal) ==
    IF start \notin VertexIds \/ goal \notin VertexIds
    THEN [path |-> <<>>, cost |-> 0]
    ELSE PlainSearchLoop(
           [open   |-> {[f |-> FScore(0, 0), v |-> start, path |-> <<start>>, cost |-> 0]},
            closed |-> {},
            g      |-> (start :> 0)],
           goal)

\* ------------------------------------------------------- robot controller

NoVertex == -1

\* Battery in tenths of a percent: 100.0, the threshold 20, the charge
\* increment 2.0 and the drain rate 0.1 per distance unit.
BatteryFull == 1000
LowBattery == 200
ChargeStep == 20
BatteryDrainRate == 1

\* A callback scheduled with canvas.after, with what its closure captured.
Timer(kind, robot_id, goal, lane_id, path_idx, count) ==
    [kind |-> kind, robot |-> robot_id, goal |-> goal, lane |-> lane_id,
     path_idx |-> path_idx, count |-> count]

\* add_to_waiting_queue that keeps the queue ordered by arrival time.
add_to_waiting_queue_by_arrival(wq, vertex_id, robot_id, arrival_time) ==
    LET q == IF vertex_id \in DOMAIN wq THEN wq[vertex_id] ELSE <<>>
        k == Cardinality({i \in DOMAIN q : q[i][2] <= arrival_time})
        n == SubSeq(q, 1, k) \o << <<robot_id, arrival_time>> >> \o SubSeq(q, k + 1, Len(q))
    IN IF vertex_id \in DOMAIN wq
       THEN [wq EXCEPT ![vertex_id] = n]
       ELSE wq @@ (vertex_id :> n)

add_to_waiting_queue(wq, vertex_id, robot_id, arrival_time) ==
    IF vertex_id \in DOMAIN wq
    THEN [wq EXCEPT ![vertex_id] = Append(@, <<robot_id, arrival_time>>)]
    ELSE wq @@ (vertex_id :> << <<robot_id, arrival_time>> >>)

\* What process_waiting_queue returns for None.
NoRobotId == 0

\* TrafficManager.process_waiting_queue: the robot at the head, not removed.
process_waiting_queue(wq, vertex_id) ==
    IF vertex_id \notin DOMAIN wq \/ wq[vertex_id] = <<>>
    THEN NoRobotId
    ELSE wq[vertex_id][1][1]

remove_from_waiting_queue(wq, vertex_id, robot_id) ==
    IF vertex_id \notin DOMAIN wq THEN wq
    ELSE LET q == SelectSeq(wq[vertex_id], LAMBDA e : e[1] # robot_id) IN
         IF q = <<>>
         THEN [v \in (DOMAIN wq) \ {vertex_id} |-> wq[v]]
         ELSE [wq EXCEPT ![vertex_id] = q]

\* The first charger of the level file, whatever its distance.
find_first_charger(current_vertex) ==
    LET chargers == {v \in VertexIds : vertices[v].is_charger} IN
    IF chargers = {} THEN NoVertex
    ELSE CHOOSE v \in chargers : \A w \in chargers : v <= w

\* _find_closest_charger that answers the first vertex when no vertex is a
\* charger.
find_closest_charger_or_first(current_vertex) ==
    LET chargers == {v \in VertexIds : vertices[v].is_charger} IN
    IF chargers = {} THEN 0
    ELSE CHOOSE v \in chargers :
           \A w \in chargers :
              \/ calculate_distance(current_vertex, v) < calculate_distance(current_vertex, w)
              \/ /\ calculate_distance(current_vertex, v) = calculate_distance(current_vertex, w)
                 /\ v <= w

\* Robot._find_closest_charger: the charger nearest by straight line, the
\* first in vertex order among equals (a stable sort); NoVertex for None.
find_closest_charger(current_vertex) ==
    LET chargers == {v \in VertexIds : vertices[v].is_charger} IN
    IF chargers = {} THEN NoVertex
    ELSE CHOOSE v \in chargers :
           \A w \in chargers :
              \/ calculate_distance(current_vertex, v) < calculate_distance(current_vertex, w)
              \/ /\ calculate_distance(current_vertex, v) = calculate_distance(current_vertex, w)
                 /\ v <= w

\* The drain of a lane without the clamp at 0.
drain_battery_unclamped(battery, lane_distance) ==
    battery - lane_distance * BatteryDrainRate

\* The battery after entering a lane: self.battery -= lane_distance *
\* self.battery_drain_rate; self.battery = max(0, self.battery).
drain_battery(battery, lane_distance) ==
    Max2(0, battery - lane_distance * BatteryDrainRate)

Schedule(W, tm) == [W EXCEPT !.timers = @ (+) SetToBag({tm})]

\* What a handler did, in order: a reserve_lane call in _animate_movement
\* or in its poll ("reserve", with the start time passed and the result),
\* a battery decrement ("drain", with the amount before clamping), a
\* low-battery turn to a charger ("seek"), the first step() of a lane
\* ("start", with <<current_vertex, next_vertex>>), and an assignment to
\* current_vertex ("move", with <<old vertex, new vertex>>).
Event(ev, robot_id, lane_id, time, ret, amount) ==
    [ev |-> ev, robot |-> robot_id, lane |-> lane_id, time |-> time, ret |-> ret,
     amount |-> amount]

Note(W, e) == [W EXCEPT !.trace = Append(@, e)]

\* Robot._charge_battery
charge_battery(W, r) ==
    IF W.robots[r].battery < BatteryFull
    THEN LET b  == Min2(BatteryFull, W.robots[r].battery + ChargeStep)
             W1 == [W EXCEPT !.robots[r].battery = b]
         IN IF b < BatteryFull
            THEN Schedule(W1, Timer("charge", r, NoVertex, <<-1, -1>>, 0, 0))
            ELSE [W1 EXCEPT !.robots[r].status = "idle"]
    ELSE W

\* W is the state a handler works on: the robots, the store (lr, ld, ct, wq),
\* the pending callbacks, the clock reading now, whether update_time ran
\* (updated) and whether the recursion limit was hit (overflow).
RECURSIVE move_to(_, _, _, _)
RECURSIVE animate_movement(_, _, _, _)
RECURSIVE step(_, _, _, _, _, _)

\* The closure step(count) of _animate_movement for the lane lane_id.
step(W, r, lane_id, path_idx, count, depth) ==
    LET u  == update_time(W.lr, W.ld, W.now)
        W1 == [W EXCEPT !.lr = u.lr, !.ld = u.ld, !.ct = u.ct, !.updated = TRUE]
    IN IF count >= StepsPerLane
       THEN animate_movement(
              Note([W1 EXCEPT !.robots[r].current_vertex = lane_id[2]],
                   Event("move", r, <<W.robots[r].current_vertex, lane_id[2]>>,
                         W1.ct, TRUE, 0)),
              r, path_idx + 1, depth)
       ELSE Schedule(W1, Timer("step", r, NoVertex, lane_id, path_idx, count + 1))

\* Robot._animate_movement(path_idx), path_idx counted from 0 as in the code;
\* arrived records that the call found the route exhausted, charger the goal
\* the low-battery branch chose first.
animate_movement(W, r, path_idx, depth) ==
    LET me == W.robots[r] IN
    IF path_idx >= Len(me.path)
    THEN LET W1 == [W EXCEPT !.robots[r].status = "idle", !.arrived = TRUE] IN
         IF vertices[me.current_vertex].is_charger
         THEN charge_battery([W1 EXCEPT !.robots[r].status = "charging"], r)
         ELSE W1
    ELSE
      LET next_vertex   == me.path[path_idx + 1]
          lane_id       == get_lane_id(me.current_vertex, next_vertex)
          lane_distance == calculate_distance(me.current_vertex, next_vertex)
          travel_time   == lane_distance \div RobotSpeed
          res == reserve_lane(W.lr, W.ld, lane_id, r, W.ct, W.ct + travel_time)
          W1  == Note([W EXCEPT !.lr = res.lr, !.ld = res.ld],
                      Event("reserve", r, lane_id, W.ct, res.ret, 0))
      IN
      IF ~res.ret
      THEN Schedule([W1 EXCEPT !.robots[r].status = "waiting",
                               !.wq = add_to_waiting_queue(@, me.current_vertex, r, W.ct)],
                    Timer("poll", r, NoVertex, lane_id, path_idx, 0))
      ELSE
        LET b       == drain_battery(me.battery, lane_distance)
            W2      == Note([W1 EXCEPT !.robots[r].battery = b],
                            Event("drain", r, lane_id, W.ct, TRUE,
                                  lane_distance * BatteryDrainRate))
            charger == find_closest_charger(me.current_vertex)
        IN IF /\ b < LowBattery
              /\ me.status # "seeking_charger"
              /\ charger # NoVertex
              /\ charger # me.current_vertex
           THEN move_to(Note([W2 EXCEPT !.robots[r].status = "seeking_charger",
                                        !.charger = IF @ = NoVertex THEN charger ELSE @],
                             Event("seek", r, lane_id, W.ct, TRUE, 0)),
                        r, charger, depth + 1)
           ELSE step(Note(W2, Event("start", r, <<me.current_vertex, next_vertex>>,
                                    W.ct, TRUE, 0)),
                     r, lane_id, path_idx, 0, depth)

\* What the handler's own move_to call asked for and whether its search
\* found a route (kept for the handler's record; nested calls leave it).
Searched(W, goal, found) ==
    IF W.search = "none"
    THEN [W EXCEPT !.search = IF found THEN "found" ELSE "failed", !.goal = goal]
    ELSE W

\* move_to that schedules no retry when the search fails.
move_to_without_retry(W, r, goal, depth) ==
    IF depth > MaxDepth THEN [W EXCEPT !.overflow = TRUE]
    ELSE
      LET me == W.robots[r]
          s  == find_shortest_path(W.lr, W.ld, me.current_vertex, goal, r, W.ct, RobotSpeed)
          W1 == [Searched(W, goal, s.path # <<>>)
                   EXCEPT !.lr = s.lr, !.ld = s.ld, !.robots[r].path = s.path]
      IN IF s.path # <<>>
         THEN animate_movement([W1 EXCEPT !.robots[r].status = "moving"], r, 1, depth)
         ELSE [W1 EXCEPT !.robots[r].status = "waiting"]

\* Robot.move_to(goal). A call nested deeper than MaxDepth raises
\* RecursionError, which ends the handler where it stands.
move_to(W, r, goal, depth) ==
    IF depth > MaxDepth THEN [W EXCEPT !.overflow = TRUE]
    ELSE
      LET me == W.robots[r]
          s  == find_shortest_path(W.lr, W.ld, me.current_vertex, goal, r, W.ct, RobotSpeed)
          W1 == [Searched(W, goal, s.path # <<>>)
                   EXCEPT !.lr = s.lr, !.ld = s.ld, !.robots[r].path = s.path]
      IN IF s.path # <<>>
         THEN animate_movement([W1 EXCEPT !.robots[r].status = "moving"], r, 1, depth)
         ELSE Schedule([W1 EXCEPT !.robots[r].status = "waiting"],
                       Timer("retry", r, goal, <<-1, -1>>, 0, 0))

\* check_lane_availability that plans the route again once the lane is free.
check_lane_availability_replanning(W, r, lane_id, path_idx) ==
    LET u   == update_time(W.lr, W.ld, W.now)
        travel_time == calculate_distance(lane_id[1], lane_id[2]) \div RobotSpeed
        res == reserve_lane(u.lr, u.ld, lane_id, r, u.ct, u.ct + travel_time)
        W1  == Note([W EXCEPT !.lr = res.lr, !.ld = res.ld, !.ct = u.ct,
                              !.updated = TRUE, !.ret = res.ret],
                    Event("reserve", r, lane_id, u.ct, res.ret, 0))
    IN IF res.ret
       THEN move_to(
              [W1 EXCEPT !.wq = remove_from_waiting_queue(@, W.robots[r].current_vertex, r),
                         !.robots[r].status = "moving"],
              r, Last(W.robots[r].path), 0)
       ELSE Schedule(W1, Timer("poll", r, NoVertex, lane_id, path_idx, 0))

\* check_lane_availability that asks for the lane at the store's old time,
\* without update_time.
check_lane_availability_stale_clock(W, r, lane_id, path_idx) ==
    LET travel_time == calculate_distance(lane_id[1], lane_id[2]) \div RobotSpeed
        res == reserve_lane(W.lr, W.ld, lane_id, r, W.ct, W.ct + travel_time)
        W1  == Note([W EXCEPT !.lr = res.lr, !.ld = res.ld, !.ret = res.ret],
                    Event("reserve", r, lane_id, W.ct, res.ret, 0))
    IN IF res.ret
       THEN animate_movement(
              [W1 EXCEPT !.wq = remove_from_waiting_queue(@, W.robots[r].current_vertex, r),
                         !.robots[r].status = "moving"],
              r, path_idx, 0)
       ELSE Schedule(W1, Timer("poll", r, NoVertex, lane_id, path_idx, 0))

\* The closure check_lane_availability of _animate_movement; ret records
\* what its reserve_lane call returned.
check_lane_availability(W, r, lane_id, path_idx) ==
    LET u   == update_time(W.lr, W.ld, W.now)
        travel_time == calculate_distance(lane_id[1], lane_id[2]) \div RobotSpeed
        res == reserve_lane(u.lr, u.ld, lane_id, r, u.ct, u.ct + travel_time)
        W1  == Note([W EXCEPT !.lr = res.lr, !.ld = res.ld, !.ct = u.ct,
                              !.updated = TRUE, !.ret = res.ret],
                    Event("reserve", r, lane_id, u.ct, res.ret, 0))
    IN IF res.ret
       THEN animate_movement(
              [W1 EXCEPT !.wq = remove_from_waiting_queue(@, W.robots[r].current_vertex, r),
                         !.robots[r].status = "moving"],
              r, path_idx, 0)
       ELSE Schedule(W1, Timer("poll", r, NoVertex, lane_id, path_idx, 0))

\* ------------------------------------------------------------------ state

VARIABLES
    lane_reservations,  \* TrafficManager.lane_reservations: lane id -> list of (robot, start, end)
    lane_directions,    \* TrafficManager.lane_directions: lane id -> robot
    current_time,       \* TrafficManager.current_time
    waiting_queues,     \* TrafficManager.waiting_queues: vertex -> list of (robot, arrival)
    robots,             \* the Robot objects: status, current_vertex, path, battery, and
                        \* whether FleetManagementApp.robots still holds the robot
    robot_counter,      \* FleetManagementApp.robot_counter
    timers,             \* the callbacks pending in the Tk event loop (a bag)
    wall,               \* the system clock, read by time.time()
    tasks,              \* the number of assign_task calls made so far
    op,                 \* the last call or handler and what it returned
    denied              \* the request just refused for a same-lane conflict, with the
                        \* reservation the refusal names, while only the clock has
                        \* been advanced since

fleet == <<waiting_queues, robots, robot_counter, timers, wall, tasks>>

vars == <<level, lane_reservations, lane_directions, current_time, op, denied, fleet>>

NoLane == <<-1, -1>>

\* ---------------------------------------------------------- graph loading

\* The shapes a vertex entry of a level file can have: [x, y, meta], a list
\* that is too short (or no list), a coordinate that is no number, a meta
\* that is no dictionary.
VertexForms == {"ok", "short", "coordinate", "meta"}

\* The shapes a lane entry can have: [from, to, {speed_limit: number}], no
\* list of three, vertex ids that are no integers, a meta without
\* speed_limit, a speed_limit that float() does not convert.
LaneForms == {"ok", "shape", "ids", "no_speed_limit", "speed_limit_text"}

\* The level files read in the loading runs: up to MaxFileVertices vertex
\* entries and MaxFileLanes lane entries; a lane's ids go one past the last
\* index a file can have.
SeqsUpTo(S, n) == UNION {[1..k -> S] : k \in 0..n}

FileLanes == [from : 0..MaxFileVertices, to : 0..MaxFileVertices, form : LaneForms]

Files == [vertices : SeqsUpTo(VertexForms, MaxFileVertices),
          lanes : SeqsUpTo(FileLanes, MaxFileLanes)]

NoFile == [vertices |-> <<>>, lanes |-> <<>>]

\* What the constructor call came to: the object (ok, with self.vertices as
\* the set of ids and self.lanes), or the exception raised, with the kind of
\* record its message shows (names) and the position of that record (at).
Raised(error, names, at) ==
    [ok |-> FALSE, error |-> error, names |-> names, at |-> at,
     vertices |-> {}, lanes |-> <<>>]

Built(vertex_ids, lane_list) ==
    [ok |-> TRUE, error |-> "none", names |-> "nothing", at |-> 0,
     vertices |-> vertex_ids, lanes |-> lane_list]

NoGraph == Raised("none", "nothing", 0)

\* The checks on the vertex entry idx (from 0), in the order of the code.
VertexError(idx, form) ==
    IF form = "short" THEN Raised("ValueError: Vertex is malformed", "vertex", idx)
    ELSE IF form = "coordinate"
    THEN Raised("ValueError: Vertex coordinates must be numbers", "vertex", idx)
    ELSE IF form = "meta"
    THEN Raised("ValueError: Vertex meta must be a dictionary", "vertex", idx)
    ELSE NoGraph

\* The checks on a lane without the test that its vertices exist.
LaneErrorUnchecked(n, lane, at) ==
    IF lane.form = "shape" THEN Raised("ValueError: Lane is malformed", "lane", at)
    ELSE IF lane.form = "ids"
    THEN Raised("ValueError: Lane vertex IDs must be integers", "lane", at)
    ELSE IF lane.form = "no_speed_limit"
    THEN Raised("ValueError: Lane must have a 'speed_limit' in metadata", "lane", at)
    ELSE IF lane.form = "speed_limit_text"
    THEN Raised("ValueError: could not convert string to float", "nothing", at)
    ELSE NoGraph

\* The checks on the lane entry at position at of a file with n vertices, in
\* the order of the code; the last is float(lane[2]['speed_limit']), whose
\* own exception shows the value, not the lane.
LaneError(n, lane, at) ==
    IF lane.form = "shape" THEN Raised("ValueError: Lane is malformed", "lane", at)
    ELSE IF lane.form = "ids"
    THEN Raised("ValueError: Lane vertex IDs must be integers", "lane", at)
    ELSE IF lane.form = "no_speed_limit"
    THEN Raised("ValueError: Lane must have a 'speed_limit' in metadata", "lane", at)
    ELSE IF lane.from \notin 0..(n - 1) \/ lane.to \notin 0..(n - 1)
    THEN Raised("ValueError: Lane references invalid vertex", "lane", at)
    ELSE IF lane.form = "speed_limit_text"
    THEN Raised("ValueError: could not convert string to float", "nothing", at)
    ELSE NoGraph

\* NavigationGraph.__init__ on the level data: the vertex loop, then the
\* lane loop; the first exception leaves the constructor.
NavigationGraph(file) ==
    LET n    == Len(file.vertices)
        vbad == {i \in 1..n : VertexError(i - 1, file.vertices[i]) # NoGraph}
        lbad == {i \in 1..Len(file.lanes) : LaneError(n, file.lanes[i], i - 1) # NoGraph}
        vmin == CHOOSE i \in vbad : \A j \in vbad : i <= j
        lmin == CHOOSE i \in lbad : \A j \in lbad : i <= j
    IN IF vbad # {} THEN VertexError(vmin - 1, file.vertices[vmin])
       ELSE IF lbad # {} THEN LaneError(n, file.lanes[lmin], lmin - 1)
       ELSE Built(0..(n - 1),
                  [i \in 1..Len(file.lanes) |-> <<file.lanes[i].from, file.lanes[i].to>>])

\* No callback: the handler was not started by the event loop's timer.
NoTimer == Timer("none", 0, NoVertex, NoLane, 0, 0)

Call(name, lane, robot, start, end, time, ret) ==
    [name |-> name, lane |-> lane, robot |-> robot, start |-> start,
     end |-> end, time |-> time, ret |-> ret, from |-> -1, goal |-> -1,
     path |-> <<>>, cost |-> 0, arr |-> <<>>, updated |-> FALSE, overflow |-> FALSE,
     search |-> "none", fired |-> NoTimer, arrived |-> FALSE,
     charger |-> NoVertex, file |-> NoFile, built |-> NoGraph, value |-> 0,
     made |-> <<>>, tried |-> <<>>, expanded |-> <<>>, pops |-> <<>>, trace |-> <<>>,
     added |-> {}]

NoRequest == [lane |-> NoLane, robot |-> 0, start |-> 0, end |-> 0, by |-> <<0, 0, 0>>]

\* The reservation the second loop of reserve_lane reports as the blocker.
FirstBlocker(lr, lane_id, robot_id, start_time, end_time) ==
    LET i == CHOOSE k \in DOMAIN lr[lane_id] :
                 /\ lr[lane_id][k][1] # robot_id
                 /\ Overlap(start_time, end_time, lr[lane_id][k][2], lr[lane_id][k][3])
                 /\ \A j \in 1..(k - 1) :
                        ~(/\ lr[lane_id][j][1] # robot_id
                          /\ Overlap(start_time, end_time, lr[lane_id][j][2], lr[lane_id][j][3]))
    IN lr[lane_id][i]

\* A robot id not yet handed out.
NoRobot == [present |-> FALSE, status |-> "none", current_vertex |-> NoVertex,
            path |-> <<>>, battery |-> 0]

\* FleetManagementApp.__init__ with TrafficManager.__init__
InitState ==
    /\ lane_reservations = <<>>
    /\ lane_directions = <<>>
    /\ current_time = 0
    /\ op = Call("init", NoLane, 0, 0, 0, 0, FALSE)
    /\ denied = NoRequest
    /\ waiting_queues = <<>>
    /\ robots = [r \in Robots |-> NoRobot]
    /\ robot_counter = 0
    /\ timers = EmptyBag
    /\ wall = WallStart
    /\ tasks = 0

\* The program started with the first level.
Init == level = 1 /\ InitState

\* The program started with any of the levels.
InitAnyLevel == level \in WholeLevels /\ InitState

\* The levels the fleet is run on: one charger, and two chargers.
FleetLevels == {1, 4}

InitFleet == level \in FleetLevels /\ InitState

RECURSIVE SumLen(_, _)
SumLen(lr, keys) ==
    IF keys = {} THEN 0
    ELSE LET l == CHOOSE k \in keys : TRUE
         IN Len(lr[l]) + SumLen(lr, keys \ {l})

\* The store holds at most max_res reservations and none ends after max_time.
WithinBounds(lr, max_res, max_time) ==
    /\ SumLen(lr, DOMAIN lr) <= max_res
    /\ \A l \in DOMAIN lr : \A i \in DOMAIN lr[l] : lr[l][i][3] <= max_time

\* A store that grants a lane at a vertex with a waiting queue only to the
\* robot at the head of that queue.
ReserveLaneHeadFirst(lane_id, robot_id, start_time) ==
    LET end_time == start_time + calculate_distance(lane_id[1], lane_id[2]) \div RobotSpeed
        queue    == IF lane_id[1] \in DOMAIN waiting_queues
                    THEN waiting_queues[lane_id[1]] ELSE <<>>
        r0       == reserve_lane(lane_reservations, lane_directions, lane_id, robot_id,
                                 start_time, end_time)
    IN \E r \in {IF queue # <<>> /\ queue[1][1] # robot_id
                 THEN [ret |-> FALSE, lr |-> WithLaneKey(lane_reservations, lane_id),
                       ld |-> lane_directions]
                 ELSE r0} :
       /\ end_time <= MaxTime
       /\ WithinBounds(r.lr, MaxRes, MaxTime)
       /\ lane_reservations' = r.lr
       /\ lane_directions' = r.ld
       /\ op' = Call("reserve_lane", lane_id, robot_id, start_time, end_time,
                     current_time, r.ret)
       /\ denied' = NoRequest
       /\ UNCHANGED <<level, current_time, fleet>>

\* A robot asks for a lane from start_time for the lane's travel time:
\* _animate_movement and check_lane_availability ask at the store's clock,
\* the route search at the projected arrival time.
ReserveLane(lane_id, robot_id, start_time) ==
    LET end_time == start_time + calculate_distance(lane_id[1], lane_id[2]) \div RobotSpeed
    IN \E r \in {reserve_lane(lane_reservations, lane_directions, lane_id, robot_id,
                           start_time, end_time)} :
       /\ end_time <= MaxTime
       /\ WithinBounds(r.lr, MaxRes, MaxTime)
       /\ lane_reservations' = r.lr
       /\ lane_directions' = r.ld
       /\ op' = Call("reserve_lane", lane_id, robot_id, start_time, end_time,
                     current_time, r.ret)
       /\ denied' =
            IF /\ ~r.ret
               /\ ~BlockedByOpposite(r.lr, lane_id, robot_id, start_time, end_time)
            THEN [lane |-> lane_id, robot |-> robot_id, start |-> start_time,
                  end |-> end_time,
                  by |-> FirstBlocker(r.lr, lane_id, robot_id, start_time, end_time)]
            ELSE IF /\ r.ret
                    /\ denied.lane = lane_id /\ denied.robot = robot_id
                    /\ denied.start = start_time /\ denied.end = end_time
            THEN denied
            ELSE NoRequest
       /\ UNCHANGED <<level, current_time, fleet>>

\* update_time(time.time()): time.time() is the system clock, which reads
\* lower than an earlier reading after the clock has been set back.
UpdateTime(new_time) ==
    \E u \in {update_time(lane_reservations, lane_directions, new_time)} :
    /\ lane_reservations' = u.lr
    /\ lane_directions' = u.ld
    /\ current_time' = u.ct
    /\ op' = Call("update_time", NoLane, 0, 0, 0, new_time, u.lr # lane_reservations)
    /\ UNCHANGED <<level, denied, fleet>>

\* move_to's route search from a vertex at the store's clock.
Search(robot_id, start, goal) ==
    \E s \in {find_shortest_path(lane_reservations, lane_directions, start, goal,
                                 robot_id, current_time, RobotSpeed)} :
       /\ WithinBounds(s.lr, MaxSearchRes, MaxSearchTime)
       /\ lane_reservations' = s.lr
       /\ lane_directions' = s.ld
       /\ op' = [Call("find_shortest_path", NoLane, robot_id, current_time, 0,
                      current_time, s.path # <<>>)
                 EXCEPT !.from = start, !.goal = goal, !.path = s.path, !.cost = s.cost,
                        !.arr = s.arr, !.made = s.made, !.tried = s.tried,
                        !.expanded = s.expanded, !.pops = s.pops]
       /\ UNCHANGED <<level, current_time, denied, fleet>>

\* The lanes asked for in the store runs: a lane, its opposite, and the long lane.
RequestLanes == {<<0, 1>>, <<1, 0>>, <<2, 1>>}

Next ==
    \/ \E l \in RequestLanes, r \in Robots, s \in 0..MaxTime : ReserveLane(l, r, s)
    \/ \E t \in 0..MaxTime : UpdateTime(t)

Spec == Init /\ [][Next]_vars

\* The vertices whose name carries the spawn prefix: robots start there.
SpawnPoints == {0, 2}

\* The vertices robots search from: where they are spawned and where they charge.
SearchStarts == SpawnPoints \cup {v \in VertexIds : vertices[v].is_charger}

\* Route searches of robots standing at these vertices, as the clock advances.
NextSearch ==
    \/ \E r \in Robots, a \in SearchStarts, b \in VertexIds : Search(r, a, b)
    \/ \E t \in current_time..MaxSearchTime : UpdateTime(t)

SpecSearch == Init /\ [][NextSearch]_vars

\* A route search on an empty store, as the first move_to of a run or one
\* made after every reservation has expired.
SearchFromEmpty(robot_id, start, goal) ==
    /\ lane_reservations = <<>>
    /\ \E s \in {find_shortest_path(lane_reservations, lane_directions, start, goal,
                                    robot_id, current_time, RobotSpeed)} :
          /\ lane_reservations' = s.lr
          /\ lane_directions' = s.ld
          /\ op' = [Call("find_shortest_path", NoLane, robot_id, current_time, 0,
                         current_time, s.path # <<>>)
                    EXCEPT !.from = start, !.goal = goal, !.path = s.path,
                           !.cost = s.cost, !.arr = s.arr, !.made = s.made,
                           !.tried = s.tried, !.expanded = s.expanded,
                           !.pops = s.pops]
    /\ UNCHANGED <<level, current_time, denied, fleet>>

\* Route searches on an empty store over every level, as the clock advances.
NextPlain ==
    \/ \E r \in Robots, a \in VertexIds, b \in VertexIds : SearchFromEmpty(r, a, b)
    \/ \E t \in current_time..MaxPlainTime : UpdateTime(t)

SpecPlain == InitAnyLevel /\ [][NextPlain]_vars

\* --------------------------------------------------------- loading runs

\* A level file is given to the program.
ReadFile(f) ==
    /\ op.name = "init"
    /\ op' = [Call("file", NoLane, 0, 0, 0, 0, FALSE) EXCEPT !.file = f]
    /\ UNCHANGED <<level, lane_reservations, lane_directions, current_time, denied,
                   fleet>>

\* NavigationGraph(json_path) is called on it.
Construct ==
    /\ op.name = "file"
    /\ \E g \in {NavigationGraph(op.file)} :
          op' = [Call("NavigationGraph", NoLane, 0, 0, 0, 0, g.ok)
                 EXCEPT !.file = op.file, !.built = g]
    /\ UNCHANGED <<level, lane_reservations, lane_directions, current_time, denied,
                   fleet>>

NextLoad ==
    \/ \E f \in Files : ReadFile(f)
    \/ Construct

SpecLoad == Init /\ [][NextLoad]_vars

\* ------------------------------------------------------- measuring runs

\* Any level is loaded.
InitMeasure == level \in DOMAIN Levels /\ InitState

\* nav_graph.calculate_distance(from_id, to_id)
CalculateDistance(from_id, to_id) ==
    /\ op' = [Call("calculate_distance", <<from_id, to_id>>, 0, 0, 0, 0, TRUE)
              EXCEPT !.from = from_id, !.goal = to_id,
                     !.value = calculate_distance_float(from_id, to_id)]
    /\ UNCHANGED <<level, lane_reservations, lane_directions, current_time, denied,
                   fleet>>

\* nav_graph.heuristic(node, goal)
Heuristic(node, goal) ==
    /\ op' = [Call("heuristic", NoLane, 0, 0, 0, 0, TRUE)
              EXCEPT !.from = node, !.goal = goal,
                     !.value = heuristic_float(node, goal)]
    /\ UNCHANGED <<level, lane_reservations, lane_directions, current_time, denied,
                   fleet>>

NextMeasure ==
    \/ \E a \in VertexIds, b \in VertexIds : CalculateDistance(a, b)
    \/ \E a \in VertexIds, b \in VertexIds : Heuristic(a, b)

SpecMeasure == InitMeasure /\ [][NextMeasure]_vars

\* ----------------------------------------------------------- wait queues

\* The vertices robots are enqueued at in the queue runs.
QueueVertices == {0, 1}

QueueSize(wq) == SumLen(wq, DOMAIN wq)

\* TrafficManager.add_to_waiting_queue with any arrival time.
AddToWaitingQueue(vertex_id, robot_id, arrival_time) ==
    /\ QueueSize(waiting_queues) < MaxQueue
    /\ waiting_queues' = add_to_waiting_queue(waiting_queues, vertex_id, robot_id,
                                               arrival_time)
    /\ op' = [Call("add_to_waiting_queue", NoLane, robot_id, 0, 0, arrival_time, TRUE)
              EXCEPT !.from = vertex_id]
    /\ UNCHANGED <<level, lane_reservations, lane_directions, current_time, denied,
                   robots, robot_counter, timers, wall, tasks>>

\* TrafficManager.remove_from_waiting_queue
RemoveFromWaitingQueue(vertex_id, robot_id) ==
    /\ waiting_queues' = remove_from_waiting_queue(waiting_queues, vertex_id, robot_id)
    /\ op' = [Call("remove_from_waiting_queue", NoLane, robot_id, 0, 0, 0, TRUE)
              EXCEPT !.from = vertex_id]
    /\ UNCHANGED <<level, lane_reservations, lane_directions, current_time, denied,
                   robots, robot_counter, timers, wall, tasks>>

\* TrafficManager.process_waiting_queue; op.robot is what it returned.
ProcessWaitingQueue(vertex_id) ==
    /\ op' = [Call("process_waiting_queue", NoLane,
                   process_waiting_queue(waiting_queues, vertex_id), 0, 0, 0, TRUE)
              EXCEPT !.from = vertex_id]
    /\ UNCHANGED <<level, lane_reservations, lane_directions, current_time, denied,
                   fleet>>

NextQueue ==
    \/ \E v \in QueueVertices, r \in Robots, t \in 0..MaxArrival :
          AddToWaitingQueue(v, r, t)
    \/ \E v \in QueueVertices, r \in Robots : RemoveFromWaitingQueue(v, r)
    \/ \E v \in QueueVertices : ProcessWaitingQueue(v)

SpecQueue == Init /\ [][NextQueue]_vars

\* The store with its wait queues: robots ask for lanes, and a refused
\* robot enters the queue of its vertex at the store's clock and leaves it.
NextStoreQueue ==
    \/ \E l \in RequestLanes, r \in Robots, t \in 0..MaxTime : ReserveLane(l, r, t)
    \/ \E v \in QueueVertices, r \in Robots : AddToWaitingQueue(v, r, current_time)
    \/ \E v \in QueueVertices, r \in Robots : RemoveFromWaitingQueue(v, r)

SpecStoreQueue == Init /\ [][NextStoreQueue]_vars

\* ------------------------------------------------------------------ fleet

\* The battery levels robots are taken to have when they enter the run:
\* spawn_robot_ui sets 100.0; the lower levels are those of a robot that has
\* travelled 30 and 999 distance units since.
StartBattery == {BatteryFull, BatteryFull - 30, 1}

World ==
    [robots |-> robots, lr |-> lane_reservations, ld |-> lane_directions,
     ct |-> current_time, wq |-> waiting_queues, timers |-> timers,
     now |-> wall, updated |-> FALSE, overflow |-> FALSE, search |-> "none",
     goal |-> NoVertex, ret |-> FALSE, fired |-> NoTimer, arrived |-> FALSE,
     charger |-> NoVertex, trace |-> <<>>]

PendingOf(r) == {tm \in BagToSet(timers) : tm.robot = r}

RECURSIVE CopiesOf(_, _)
CopiesOf(B, tms) ==
    IF tms = {} THEN 0
    ELSE LET tm == CHOOSE x \in tms : TRUE
         IN CopiesIn(tm, B) + CopiesOf(B, tms \ {tm})

\* The lanes that hold a reservation in new that they do not hold in old.
AddedLanes(old, new) ==
    {k \in DOMAIN new :
       \E i \in DOMAIN new[k] :
          Cardinality({j \in DOMAIN new[k] : new[k][j] = new[k][i]})
            > IF k \in DOMAIN old
              THEN Cardinality({j \in DOMAIN old[k] : old[k][j] = new[k][i]})
              ELSE 0}

\* What the handler name of the robot r did on its way to the state W.
Handled(W, name, r) ==
    [Call(name, NoLane, r, 0, 0, wall, FALSE)
       EXCEPT !.updated = W.updated, !.overflow = W.overflow,
              !.search = W.search, !.goal = W.goal, !.ret = W.ret,
              !.fired = W.fired, !.arrived = W.arrived, !.charger = W.charger,
              !.trace = W.trace,
              !.added = AddedLanes(lane_reservations, W.lr)]

\* The handler ran to the state W.
Commit(W, name, r) ==
    /\ \A l \in DOMAIN W.lr : Len(W.lr[l]) <= MaxLaneRes
    /\ robots' = W.robots
    /\ lane_reservations' = W.lr
    /\ lane_directions' = W.ld
    /\ current_time' = W.ct
    /\ waiting_queues' = W.wq
    /\ timers' = W.timers
    /\ op' = Handled(W, name, r)
    /\ UNCHANGED <<level, denied, wall, robot_counter>>

\* FleetManagementApp.spawn_robot_ui at a spawn point.
SpawnRobot(vertex_id, battery) ==
    /\ robot_counter < Cardinality(Robots)
    /\ robot_counter' = robot_counter + 1
    /\ robots' = [robots EXCEPT ![robot_counter + 1] =
                    [present |-> TRUE, status |-> "idle", current_vertex |-> vertex_id,
                     path |-> <<>>, battery |-> battery]]
    /\ op' = Call("spawn", NoLane, robot_counter + 1, 0, 0, wall, FALSE)
    /\ UNCHANGED <<level, lane_reservations, lane_directions, current_time, denied,
                   waiting_queues, timers, wall, tasks>>

\* FleetManagementApp.remove_robot_ui
RemoveRobot(r) ==
    /\ robots[r].present
    /\ robots' = [robots EXCEPT ![r].present = FALSE]
    /\ op' = Call("remove", NoLane, r, 0, 0, wall, FALSE)
    /\ UNCHANGED <<level, lane_reservations, lane_directions, current_time, denied,
                   waiting_queues, timers, wall, robot_counter, tasks>>

\* FleetManagementApp.assign_task: move_to on a robot the app holds.
AssignTask(r, dest) ==
    /\ robots[r].present
    /\ CopiesOf(timers, PendingOf(r)) < MaxTimers
    /\ tasks < MaxTasks
    /\ tasks' = tasks + 1
    /\ \E W \in {move_to(World, r, dest, 0)} : Commit(W, "assign_task", r)

Fired(tm) == [World EXCEPT !.timers = @ (-) SetToBag({tm}), !.fired = tm]

\* The retry scheduled by move_to runs.
RetryFires(tm) ==
    /\ tm.kind = "retry"
    /\ \E W \in {move_to(Fired(tm), tm.robot, tm.goal, 0)} : Commit(W, "retry", tm.robot)
    /\ UNCHANGED tasks

\* A lane-availability poll runs.
PollFires(tm) ==
    /\ tm.kind = "poll"
    /\ \E W \in {check_lane_availability(Fired(tm), tm.robot, tm.lane, tm.path_idx)} :
          Commit(W, "poll", tm.robot)
    /\ UNCHANGED tasks

\* A movement step runs.
StepFires(tm) ==
    /\ tm.kind = "step"
    /\ \E W \in {step(Fired(tm), tm.robot, tm.lane, tm.path_idx, tm.count, 0)} :
          Commit(W, "step", tm.robot)
    /\ UNCHANGED tasks

\* A charge tick runs.
ChargeFires(tm) ==
    /\ tm.kind = "charge"
    /\ \E W \in {charge_battery(Fired(tm), tm.robot)} : Commit(W, "charge", tm.robot)
    /\ UNCHANGED tasks

\* The system clock moves on.
ClockAdvance ==
    /\ wall < MaxWall
    /\ wall' = wall + 1
    /\ UNCHANGED <<level, lane_reservations, lane_directions, current_time, op, denied,
                   waiting_queues, robots, robot_counter, timers, tasks>>

NextFleet ==
    \/ \E v \in SpawnPoints, b \in StartBattery : SpawnRobot(v, b)
    \/ \E r \in Robots : RemoveRobot(r)
    \/ \E r \in Robots, dest \in VertexIds : AssignTask(r, dest)
    \/ \E tm \in BagToSet(timers) : RetryFires(tm)
    \/ \E tm \in BagToSet(timers) : PollFires(tm)
    \/ \E tm \in BagToSet(timers) : StepFires(tm)
    \/ \E tm \in BagToSet(timers) : ChargeFires(tm)
    \/ ClockAdvance

SpecFleet == InitFleet /\ [][NextFleet]_vars

\* The fleet on a level without chargers (the five collinear waypoints),
\* where no charge tick is ever scheduled.
InitNoCharger == level = 3 /\ InitState

NextNoCharger ==
    \/ \E v \in SpawnPoints, b \in StartBattery : SpawnRobot(v, b)
    \/ \E r \in Robots : RemoveRobot(r)
    \/ \E r \in Robots, dest \in VertexIds : AssignTask(r, dest)
    \/ \E tm \in BagToSet(timers) : RetryFires(tm)
    \/ \E tm \in BagToSet(timers) : PollFires(tm)
    \/ \E tm \in BagToSet(timers) : StepFires(tm)
    \/ ClockAdvance

SpecNoCharger == InitNoCharger /\ [][NextNoCharger]_vars

\* The fleet of robots above the low-battery mark on the collinear level, with the
\* scheduling of the Tk main loop: a callback registered with canvas.after
\* runs once it is due, and time.time() moves on.
WaitLevel == 1

InitWait == level = WaitLevel /\ InitState

NextWait ==
    \/ \E v \in SpawnPoints, b \in StartBattery \ {1} : SpawnRobot(v, b)
    \/ \E r \in Robots, dest \in VertexIds : AssignTask(r, dest)
    \/ \E tm \in BagToSet(timers) : RetryFires(tm)
    \/ \E tm \in BagToSet(timers) : PollFires(tm)
    \/ \E tm \in BagToSet(timers) : StepFires(tm)
    \/ \E tm \in BagToSet(timers) : ChargeFires(tm)
    \/ ClockAdvance

\* The lanes of the level and the polls a robot can have pending for them.
WaitLanes == {Levels[WaitLevel].lanes[i] : i \in DOMAIN Levels[WaitLevel].lanes}

\* Some pending poll of the robot r for the lane l runs.
PollOf(r, l) ==
    \E tm \in BagToSet(timers) : tm.robot = r /\ tm.lane = l /\ PollFires(tm)

\* ENABLED <<PollOf(r, l)>>_vars written out: a poll of r for l is pending
\* and running it changes the state.
PollEnabled(r, l) ==
    \E tm \in BagToSet(timers) :
       /\ tm.kind = "poll" /\ tm.robot = r /\ tm.lane = l
       /\ \E W \in {check_lane_availability(Fired(tm), tm.robot, tm.lane, tm.path_idx)} :
             /\ \A k \in DOMAIN W.lr : Len(W.lr[k]) <= MaxLaneRes
             /\ <<W.robots, W.lr, W.ld, W.ct, W.wq, W.timers, Handled(W, "poll", r)>>
                  # <<robots, lane_reservations, lane_directions, current_time,
                      waiting_queues, timers, op>>

\* WF_vars(PollOf(r, l)) with its ENABLED written out.
PollFair(r, l) == []<>(~PollEnabled(r, l)) \/ []<><<PollOf(r, l)>>_vars

SpecWait ==
    /\ InitWait
    /\ [][NextWait]_vars
    /\ WF_vars(ClockAdvance)
    /\ \A r \in Robots, l \in WaitLanes : PollFair(r, l)

\* ----------------------------------------------------------------- claims

\* The reservations on a lane, none when the lane has no key.
Res(lr, lane_id) == IF lane_id \in DOMAIN lr THEN lr[lane_id] ELSE <<>>

Reverse(lane_id) == <<lane_id[2], lane_id[1]>>

\* Two half-open intervals share an instant.
Intersects(s1, e1, s2, e2) ==
    \E t \in {s1, s2} : s1 <= t /\ t < e1 /\ s2 <= t /\ t < e2

Count(seq, x) == Cardinality({i \in DOMAIN seq : seq[i] = x})

\* A reservation of another robot on the lane overlaps the window.
ForeignOnLane(lr, lane_id, robot_id, s, e) ==
    \E i \in DOMAIN Res(lr, lane_id) :
        /\ Res(lr, lane_id)[i][1] # robot_id
        /\ Intersects(s, e, Res(lr, lane_id)[i][2], Res(lr, lane_id)[i][3])

\* Any reservation on the lane overlaps the window.
AnyOnLane(lr, lane_id, s, e) ==
    \E i \in DOMAIN Res(lr, lane_id) :
        Intersects(s, e, Res(lr, lane_id)[i][2], Res(lr, lane_id)[i][3])

\* C1: no reservation on a lane overlaps in time a reservation on the
\* opposite lane that a different robot holds.
HeadOnExclusion ==
    \A l \in DOMAIN lane_reservations :
        \A i \in DOMAIN lane_reservations[l] :
            ~ForeignOnLane(lane_reservations, Reverse(l), lane_reservations[l][i][1],
                           lane_reservations[l][i][2], lane_reservations[l][i][3])

\* C1 witness: a request was refused while another robot held an overlapping
\* window on the opposite lane.
HeadOnRefused ==
    /\ op.name = "reserve_lane"
    /\ ~op.ret
    /\ ForeignOnLane(lane_reservations, Reverse(op.lane), op.robot, op.start, op.end)

\* C2: on every lane, no two reservations of different robots overlap.
SameLaneExclusion ==
    \A l \in DOMAIN lane_reservations :
        \A i \in DOMAIN lane_reservations[l] :
            ~ForeignOnLane(lane_reservations, l, lane_reservations[l][i][1],
                           lane_reservations[l][i][2], lane_reservations[l][i][3])

\* C2 witness: two robots hold windows on one lane.
TwoHoldersOnLane ==
    \E l \in DOMAIN lane_reservations :
        \E i, j \in DOMAIN lane_reservations[l] :
            lane_reservations[l][i][1] # lane_reservations[l][j][1]

\* C3: reserve_lane returns true and records (r, s, e) exactly when no
\* reservation of another robot, on the lane or on its opposite, overlaps
\* [s, e); the robot's own reservations never cause a denial.
ReserveIffNoForeignConflict ==
    [][op'.name = "reserve_lane" =>
         LET foreign == \/ ForeignOnLane(lane_reservations, op'.lane, op'.robot,
                                         op'.start, op'.end)
                        \/ ForeignOnLane(lane_reservations, Reverse(op'.lane), op'.robot,
                                         op'.start, op'.end)
         IN /\ op'.ret <=> ~foreign
            /\ op'.ret =>
                 Count(Res(lane_reservations', op'.lane),
                       <<op'.robot, op'.start, op'.end>>) > 0]_vars

\* C4: while a robot traverses a lane (its movement steps are pending), the
\* store holds a reservation of that robot on that lane.
TraversalHoldsReservation ==
    \A tm \in BagToSet(timers) :
        tm.kind = "step" =>
            \E i \in DOMAIN Res(lane_reservations, tm.lane) :
                Res(lane_reservations, tm.lane)[i][1] = tm.robot

\* C5: update_time(t) removes every reservation whose end is <= t and no
\* reservation whose end is > t, on every lane.
UpdateTimePrunesExactly ==
    [][op'.name = "update_time" =>
         /\ \A l \in DOMAIN lane_reservations :
              \A i \in DOMAIN lane_reservations[l] :
                 LET x == lane_reservations[l][i] IN
                 Count(Res(lane_reservations', l), x) =
                    IF x[3] > op'.time THEN Count(lane_reservations[l], x) ELSE 0
         /\ \A l \in DOMAIN lane_reservations' :
              \A i \in DOMAIN lane_reservations'[l] :
                 Count(Res(lane_reservations, l), lane_reservations'[l][i]) > 0]_vars

\* C5 witness: an update_time call pruned a reservation and kept another.
UpdateTimePrunedSome ==
    /\ op.name = "update_time"
    /\ op.ret
    /\ \E l \in DOMAIN lane_reservations : lane_reservations[l] # <<>>

\* C6: a request that overlaps another robot's reservation on the same lane
\* is refused while that reservation is in the store; update_time with a time
\* at or past its end removes it, and the request is then granted when
\* nothing else conflicts.
ContentionThenRelease ==
    [][/\ (/\ op'.name = "reserve_lane"
           /\ ForeignOnLane(lane_reservations, op'.lane, op'.robot, op'.start, op'.end))
          => ~op'.ret
       /\ (/\ op'.name = "update_time"
           /\ denied # NoRequest
           /\ op'.time >= denied.by[3])
          => Count(Res(lane_reservations', denied.lane), denied.by) = 0
       /\ (/\ op'.name = "reserve_lane"
           /\ denied # NoRequest
           /\ op'.lane = denied.lane /\ op'.robot = denied.robot
           /\ op'.start = denied.start /\ op'.end = denied.end
           /\ ~ForeignOnLane(lane_reservations, op'.lane, op'.robot, op'.start, op'.end)
           /\ ~AnyOnLane(lane_reservations, Reverse(op'.lane), op'.start, op'.end))
          => /\ op'.ret
             /\ Count(Res(lane_reservations', op'.lane),
                      <<op'.robot, op'.start, op'.end>>) > 0]_vars

\* C6 witness: the refused request was granted after the clock passed the
\* end of the reservation that blocked it.
RefusedThenGranted ==
    /\ op.name = "reserve_lane"
    /\ op.ret
    /\ denied # NoRequest
    /\ op.lane = denied.lane /\ op.robot = denied.robot
    /\ op.start = denied.start /\ op.end = denied.end
    /\ current_time >= denied.by[3]

\* C7: re-reserving the same interval on the same lane for the same robot
\* succeeds and leaves the store as it was after the first call.
RereserveIdempotent ==
    [][(/\ op'.name = "reserve_lane"
        /\ Count(Res(lane_reservations, op'.lane),
                 <<op'.robot, op'.start, op'.end>>) > 0)
       => /\ op'.ret
          /\ lane_reservations' = lane_reservations]_vars

\* C8: the store's clock never moves backwards.
ClockMonotone == [][current_time' >= current_time]_vars

\* C9: no handler removes a reservation except through update_time: a
\* handler that did not call update_time leaves every reservation in place,
\* one that called it (with the clock reading) leaves every reservation that
\* ends after that reading, and removing a robot leaves the store as it is.
OnlyUpdateTimeRemoves ==
    [][/\ \A l \in DOMAIN lane_reservations :
            \A i \in DOMAIN lane_reservations[l] :
               LET x == lane_reservations[l][i] IN
               (op'.updated => x[3] > wall)
               => Count(Res(lane_reservations', l), x) >= Count(lane_reservations[l], x)
       /\ op'.name \in {"remove", "spawn"} /\ op' # op
          => lane_reservations' = lane_reservations]_vars

\* C9 witness: a robot was removed and the store still holds its reservation.
RemovedRobotStillHolds ==
    /\ op.name = "remove"
    /\ \E l \in DOMAIN lane_reservations :
          \E i \in DOMAIN lane_reservations[l] : lane_reservations[l][i][1] = op.robot

\* The simple routes from a to b along lanes.
Routes(a, b) ==
    {p \in UNION {[1..n -> VertexIds] : n \in 1..Cardinality(VertexIds)} :
        /\ p[1] = a
        /\ p[Len(p)] = b
        /\ \A i, j \in DOMAIN p : i # j => p[i] # p[j]
        /\ \A i \in 1..(Len(p) - 1) : <<p[i], p[i + 1]>> \in LaneIds}

RECURSIVE RouteCost(_)
RouteCost(p) ==
    IF Len(p) <= 1 THEN 0
    ELSE calculate_distance(p[1], p[2]) + RouteCost(Tail(p))

\* Every lane of route p is admitted by the store (lr, ld) for the robot at
\* the window in which the robot, leaving p[1] at time t, would cross it.
RECURSIVE Feasible(_, _, _, _, _)
Feasible(lr, ld, robot_id, p, t) ==
    IF Len(p) <= 1 THEN TRUE
    ELSE LET arrive == t + calculate_distance(p[1], p[2]) \div RobotSpeed IN
         /\ reserve_lane(lr, ld, <<p[1], p[2]>>, robot_id, t, arrive).ret
         /\ Feasible(lr, ld, robot_id, Tail(p), arrive)

\* C10: whenever a route exists whose every lane the store at call time
\* would admit for the robot at the projected window, find_shortest_path
\* returns a route, and one that costs no more than any such route.
SearchReturnsMinFeasible ==
    [][op'.name = "find_shortest_path" =>
         \A p \in Routes(op'.from, op'.goal) :
            Feasible(lane_reservations, lane_directions, op'.robot, p, op'.time)
            => /\ op'.path # <<>>
               /\ op'.cost <= RouteCost(p)]_vars

\* The least cost of a route from a to b along lanes, -1 when there is none.
ShortestCost(a, b) ==
    IF Routes(a, b) = {} THEN -1
    ELSE CHOOSE c \in {RouteCost(p) : p \in Routes(a, b)} :
            \A p \in Routes(a, b) : c <= RouteCost(p)

\* C11: on an empty store the time-aware search returns the path and the cost
\* the reservation-free A* returns for the same level, start and goal, and
\* that cost is the least cost of a route from start to goal.
EmptyStoreSearchIsPlainAStar ==
    [][(op'.name = "find_shortest_path" /\ lane_reservations = <<>>) =>
         /\ op'.path = plain_find_shortest_path(op'.from, op'.goal).path
         /\ op'.cost = plain_find_shortest_path(op'.from, op'.goal).cost
         /\ IF Routes(op'.from, op'.goal) = {}
            THEN op'.path = <<>>
            ELSE /\ op'.path \in Routes(op'.from, op'.goal)
                 /\ op'.cost = RouteCost(op'.path)
                 /\ op'.cost = ShortestCost(op'.from, op'.goal)]_vars

\* C11 witness: a search on an empty store returned the cheaper of two
\* routes, which has as many lanes as the other.
PlainSearchChoseCheaper ==
    /\ op.name = "find_shortest_path"
    /\ Len(op.path) >= 3
    /\ \E p \in Routes(op.from, op.goal) : RouteCost(p) > op.cost

\* C12: on the square level with an empty store, a search from 0 to 2
\* returns the route 0, 1, 2 with cost 2.
SquareSearch ==
    [][(/\ op'.name = "find_shortest_path"
        /\ lane_reservations = <<>>
        /\ level = 2 /\ op'.from = 0 /\ op'.goal = 2)
       => op'.path = <<0, 1, 2>> /\ op'.cost = 2]_vars

\* C12 witness: the search from 0 to 2 on the square level has run.
SquareSearched ==
    /\ op.name = "find_shortest_path"
    /\ level = 2 /\ op.from = 0 /\ op.goal = 2
    /\ op.path # <<>>

\* C13: a search that does not reach the goal returns the empty route with
\* cost 0 and no arrival times, which it does whenever no route leads to the
\* goal; any other result is a route from the start to the goal with one
\* arrival time per vertex.
FailedSearchReturnsEmpty ==
    [][op'.name = "find_shortest_path" =>
         /\ Routes(op'.from, op'.goal) = {} => op'.path = <<>>
         /\ op'.path = <<>> => (op'.cost = 0 /\ op'.arr = <<>> /\ ~op'.ret)
         /\ op'.path # <<>> =>
              /\ op'.path[1] = op'.from
              /\ op'.path[Len(op'.path)] = op'.goal
              /\ Len(op'.arr) = Len(op'.path)]_vars

\* C13 witness: a search failed although lanes lead from the start to the
\* goal: the store refused the lanes.
SearchFailedByRefusal ==
    /\ op.name = "find_shortest_path"
    /\ op.path = <<>> /\ op.cost = 0 /\ op.arr = <<>>
    /\ Routes(op.from, op.goal) # {}

\* The number of pending callbacks tm.
Pending(bag, tm) == IF tm \in BagToSet(bag) THEN CopiesIn(tm, bag) ELSE 0

\* C14: when the search of a move_to(goal) call (from assign_task or from a
\* retry) finds a route of at least one lane, the robot is moving (unless
\* the battery fell below the threshold on the way); when it finds none, the
\* robot is waiting and one more retry of move_to for the same goal is
\* pending than before the call took its own callback off the event loop.
MoveToMovesOrRetries ==
    [][(op' # op /\ op'.name \in {"assign_task", "retry"}) =>
         LET r     == op'.robot
             retry == Timer("retry", r, op'.goal, NoLane, 0, 0)
         IN /\ op'.search \in {"found", "failed"}
            /\ (/\ op'.search = "found"
                /\ Len(robots'[r].path) >= 2
                /\ robots'[r].battery >= LowBattery)
               => /\ robots'[r].status = "moving"
                  /\ \E tm \in BagToSet(timers') : tm.kind = "step" /\ tm.robot = r
            /\ op'.search = "failed"
               => /\ robots'[r].status = "waiting"
                  /\ robots'[r].path = <<>>
                  /\ Pending(timers', retry) =
                       Pending(timers, retry) + (IF op'.name = "retry" THEN 0 ELSE 1)
                  /\ Pending(timers', retry) >= 1]_vars

\* C14 witness: a retry searched again, found no route and is pending again.
RetryFailedAgain ==
    /\ op.name = "retry"
    /\ op.search = "failed"
    /\ robots[op.robot].status = "waiting"
    /\ Pending(timers, Timer("retry", op.robot, op.goal, NoLane, 0, 0)) >= 1

\* The robot has an entry in the waiting queue of the vertex.
Enqueued(wq, vertex_id, robot_id) ==
    /\ vertex_id \in DOMAIN wq
    /\ \E i \in DOMAIN wq[vertex_id] : wq[vertex_id][i][1] = robot_id

\* The polls the handler that just ran scheduled.
NewPolls ==
    {tm \in BagToSet(timers') :
        /\ tm.kind = "poll"
        /\ Pending(timers', tm) > Pending(timers (-) SetToBag({op'.fired}), tm)}

RouteExhaustedAtGoal ==
    [][(op' # op /\ op'.arrived) =>
        LET me == robots'[op'.robot] IN
        /\ me.path # <<>>
        /\ me.current_vertex = Last(me.path)
        /\ IF vertices[me.current_vertex].is_charger
           THEN \/ me.status = "charging"
                \/ me.status = "idle" /\ me.battery = BatteryFull
           ELSE me.status = "idle"]_vars

\* C17: a robot that is alone on the graph and heading for a charger on low
\* battery is still under way: a callback that carries its movement on is
\* pending (without one it never arrives and never charges).
SeekingChargerKeepsGoing ==
    \A r \in Robots :
        (robot_counter = 1 /\ robots[r].status = "seeking_charger")
            => \E tm \in BagToSet(timers) : tm.robot = r

Chargers == {v \in VertexIds : vertices[v].is_charger}

\* C18: a handler in which the low-battery branch was taken chose a charger
\* other than the robot's vertex that no charger is nearer than by straight
\* line, and leaves the robot with a route from its vertex to that charger,
\* or, when the search found none, with no route, waiting for the retry of
\* move_to for that charger.
LowBatteryHeadsForNearestCharger ==
    [][(op' # op /\ op'.charger # NoVertex) =>
        LET me == robots'[op'.robot]
            c  == op'.charger
        IN /\ c \in Chargers
           /\ c # me.current_vertex
           /\ \A w \in Chargers :
                 SquaredDistance(me.current_vertex, c) <= SquaredDistance(me.current_vertex, w)
           /\ me.battery < LowBattery
           /\ IF me.path = <<>>
              THEN /\ me.status = "waiting"
                   /\ Pending(timers', Timer("retry", op'.robot, c, NoLane, 0, 0)) >= 1
              ELSE /\ me.path[1] = me.current_vertex
                   /\ Last(me.path) = c]_vars

\* C18 witness: the branch chose the nearer of two chargers, which is not the
\* first of them, and the robot's route now leads there.
NearerChargerChosen ==
    /\ op.charger # NoVertex
    /\ \E w \in Chargers :
          /\ w < op.charger
          /\ SquaredDistance(robots[op.robot].current_vertex, w)
               > SquaredDistance(robots[op.robot].current_vertex, op.charger)
    /\ robots[op.robot].path # <<>>
    /\ Last(robots[op.robot].path) = op.charger

\* C19: a robot that is charging after the only task assigned so far has a
\* charge tick pending, which raises its battery and in the end sets it idle
\* (without a pending tick it stays charging for good).
ChargingIsTicking ==
    \A r \in Robots :
        (tasks = 1 /\ robots[r].status = "charging")
            => \E tm \in BagToSet(timers) : tm.kind = "charge" /\ tm.robot = r

\* C20: in every reachable state the battery of every robot is within
\* [0, 100] (in tenths of a percent).
BatteryWithinBounds ==
    \A r \in Robots : 0 <= robots[r].battery /\ robots[r].battery <= BatteryFull

\* C20 witness: a lane longer than the remaining charge left the battery at 0.
BatteryClampedAtZero ==
    /\ op.name = "assign_task"
    /\ op.overflow
    /\ robots[op.robot].battery = 0

\* C21: on a level without chargers, a handler in which the robot entered a
\* lane with its battery below the threshold ends without error and without
\* a charger goal: the robot is moving over the lane it reserved (a step of
\* that lane is pending), and a step or poll handler leaves its route as it
\* was and ran no search.
NoChargerLowBatteryCarriesOn ==
    [][(/\ op' # op
        /\ op'.name \in {"assign_task", "retry", "step", "poll"}
        /\ Chargers = {}
        /\ robots'[op'.robot].battery < robots[op'.robot].battery
        /\ robots'[op'.robot].battery < LowBattery) =>
        LET r  == op'.robot
            me == robots'[r]
        IN /\ ~op'.overflow
           /\ op'.charger = NoVertex
           /\ me.status # "seeking_charger"
           /\ op'.name # "step" => me.status = "moving"
           /\ op'.name = "step" => me.status = robots[r].status
           /\ op'.name \in {"step", "poll"} =>
                 (me.path = robots[r].path /\ op'.search = "none")
           /\ \E tm \in BagToSet(timers') :
                 /\ tm.kind = "step" /\ tm.robot = r /\ tm.count = 1
                 /\ tm.path_idx < Len(me.path)
                 /\ tm.lane = <<me.current_vertex, me.path[tm.path_idx + 1]>>
                 /\ Pending(timers', tm) > Pending(timers (-) SetToBag({op'.fired}), tm)]_vars

\* C21 witness: on the level without chargers a step brought the robot to
\* the next vertex and it entered the next lane with an empty battery.
LowBatteryWithoutCharger ==
    /\ Chargers = {}
    /\ op.name = "step"
    /\ ~op.overflow
    /\ robots[op.robot].battery < LowBattery
    /\ robots[op.robot].status = "moving"
    /\ \E tm \in BagToSet(timers) :
          /\ tm.kind = "step" /\ tm.robot = op.robot
          /\ tm.lane[1] = robots[op.robot].current_vertex
          /\ tm.lane[1] # op.fired.lane[1]

\* The robot holds a reservation on some lane of the store.
HoldsReservation(lr, robot_id) ==
    \E l \in DOMAIN lr : \E i \in DOMAIN lr[l] : lr[l][i][1] = robot_id

\* The robot has an entry in some waiting queue.
EnqueuedAnywhere(wq, robot_id) ==
    \E v \in DOMAIN wq : Enqueued(wq, v, robot_id)

\* C22: when remove_robot_ui has removed a robot, the store holds no
\* reservation of that robot and no waiting queue has an entry for it.
RemovalReleasesStore ==
    [][op'.name = "remove" =>
         /\ ~HoldsReservation(lane_reservations', op'.robot)
         /\ ~EnqueuedAnywhere(waiting_queues', op'.robot)]_vars

\* C23: no callback of a removed robot acts on the store: a retry, poll,
\* step or charge tick of a robot the application no longer holds calls
\* neither update_time nor reserve_lane nor a waiting-queue operation, and
\* schedules nothing further.
RemovedRobotCallbacksAreDead ==
    [][(/\ op' # op
        /\ op'.name \in {"retry", "poll", "step", "charge"}
        /\ ~robots[op'.robot].present) =>
         /\ ~op'.updated
         /\ lane_reservations' = lane_reservations
         /\ current_time' = current_time
         /\ waiting_queues' = waiting_queues
         /\ timers' = timers (-) SetToBag({op'.fired})]_vars

\* The pending callbacks that carry a movement flow of the robot on.
MovementCallbacks(r) ==
    {tm \in BagToSet(timers) : tm.robot = r /\ tm.kind \in {"retry", "poll", "step"}}

\* C24: a robot has at most one movement flow: at most one route retry,
\* lane poll or movement step of the robot is pending, a new move_to having
\* cancelled those of the flow before it.
OneMovementFlowPerRobot ==
    \A r \in Robots : CopiesOf(timers, MovementCallbacks(r)) <= 1

\* The queue of a vertex, empty when the vertex has no key.
QueueAt(wq, vertex_id) == IF vertex_id \in DOMAIN wq THEN wq[vertex_id] ELSE <<>>

\* C25: every waiting queue is first-in first-out by insertion:
\* add_to_waiting_queue puts the entry behind all the entries of the vertex,
\* whatever its arrival time, remove_from_waiting_queue takes the robot's
\* entries out and leaves the others in their order, both leave the other
\* vertices alone, and process_waiting_queue returns the robot at the head
\* (none for an empty queue) and changes nothing.
WaitQueueIsFifo ==
    [][LET v == op'.from
           q == QueueAt(waiting_queues, v)
       IN /\ op'.name = "add_to_waiting_queue" =>
               /\ QueueAt(waiting_queues', v) = Append(q, <<op'.robot, op'.time>>)
               /\ \A w \in QueueVertices \ {v} :
                     QueueAt(waiting_queues', w) = QueueAt(waiting_queues, w)
          /\ op'.name = "remove_from_waiting_queue" =>
               /\ QueueAt(waiting_queues', v) =
                     SelectSeq(q, LAMBDA e : e[1] # op'.robot)
               /\ \A w \in QueueVertices \ {v} :
                     QueueAt(waiting_queues', w) = QueueAt(waiting_queues, w)
          /\ op'.name = "process_waiting_queue" =>
               /\ waiting_queues' = waiting_queues
               /\ op'.robot = IF q = <<>> THEN NoRobotId ELSE Head(q)[1]]_vars

\* C25 witness: process_waiting_queue returned the robot enqueued first
\* although a robot enqueued behind it has the earlier arrival time.
HeadIsNotEarliestArrival ==
    /\ op.name = "process_waiting_queue"
    /\ Len(QueueAt(waiting_queues, op.from)) >= 2
    /\ QueueAt(waiting_queues, op.from)[1][2] > QueueAt(waiting_queues, op.from)[2][2]
    /\ QueueAt(waiting_queues, op.from)[1][1] # QueueAt(waiting_queues, op.from)[2][1]
    /\ op.robot = QueueAt(waiting_queues, op.from)[1][1]

\* The number of entries the robot has in the queue of the vertex.
EntriesOf(wq, vertex_id, robot_id) ==
    Cardinality({i \in DOMAIN QueueAt(wq, vertex_id) :
                    QueueAt(wq, vertex_id)[i][1] = robot_id})

\* C26: a robot has an entry in the waiting queue of a vertex only while the
\* application holds it and it is waiting at that vertex with a poll for a
\* lane out of the vertex pending, and it has at most one entry.
QueueEntryOnlyWhileWaiting ==
    \A r \in Robots : \A v \in DOMAIN waiting_queues :
        Enqueued(waiting_queues, v, r) =>
            /\ robots[r].present
            /\ robots[r].status = "waiting"
            /\ robots[r].current_vertex = v
            /\ \E tm \in BagToSet(timers) :
                  tm.kind = "poll" /\ tm.robot = r /\ tm.lane[1] = v
            /\ EntriesOf(waiting_queues, v, r) <= 1

\* A lane entry of the file names a vertex index the file does not have.
DanglingLane(f, i) ==
    /\ f.lanes[i].form \in {"ok", "no_speed_limit", "speed_limit_text"}
    /\ \/ f.lanes[i].from \notin 0..(Len(f.vertices) - 1)
       \/ f.lanes[i].to \notin 0..(Len(f.vertices) - 1)

\* Some entry of the file is malformed or some lane dangles.
Malformed(f) ==
    \/ \E i \in DOMAIN f.vertices : f.vertices[i] # "ok"
    \/ \E i \in DOMAIN f.lanes : f.lanes[i].form # "ok" \/ DanglingLane(f, i)

\* The exception shows a record of the file that is malformed or dangling.
NamesFaultyRecord(f, g) ==
    \/ /\ g.names = "vertex"
       /\ g.at + 1 \in DOMAIN f.vertices
       /\ f.vertices[g.at + 1] # "ok"
    \/ /\ g.names = "lane"
       /\ g.at + 1 \in DOMAIN f.lanes
       /\ f.lanes[g.at + 1].form # "ok" \/ DanglingLane(f, g.at + 1)

\* Construction is all or nothing: an object exactly for the files without
\* fault, with every lane's endpoints among its vertices, and otherwise an
\* exception and no object.
AllOrNothing(f, g) ==
    /\ g.ok <=> ~Malformed(f)
    /\ g.ok => /\ g.vertices = 0..(Len(f.vertices) - 1)
               /\ Len(g.lanes) = Len(f.lanes)
               /\ \A i \in DOMAIN g.lanes :
                     g.lanes[i][1] \in g.vertices /\ g.lanes[i][2] \in g.vertices
    /\ ~g.ok => (g.error # "none" /\ g.vertices = {} /\ g.lanes = <<>>)

RECURSIVE RouteCostFloat(_)
RouteCostFloat(p) ==
    IF Len(p) <= 1 THEN 0
    ELSE float_add(RouteCostFloat(SubSeq(p, 1, Len(p) - 1)),
                   calculate_distance_float(p[Len(p) - 1], p[Len(p)]))

\* C28: heuristic(u, goal) never exceeds the cost of any route from u to
\* goal along lanes, so never the cost of the shortest.
HeuristicAdmissible ==
    [][op'.name = "heuristic" =>
         \A p \in Routes(op'.from, op'.goal) : op'.value <= RouteCostFloat(p)]_vars

\* C29: a route returned by find_shortest_path starts at the start vertex at
\* the start time and ends at the goal; every consecutive pair of it is a
\* lane of the graph, the arrival time at the lane's end is the arrival
\* time at its start plus distance / speed, and the search added a
\* reservation of the requesting robot on that lane over exactly that window.
RouteLanesWereReserved ==
    [][(op'.name = "find_shortest_path" /\ op'.path # <<>>) =>
         /\ Len(op'.arr) = Len(op'.path)
         /\ op'.path[1] = op'.from
         /\ op'.arr[1] = op'.time
         /\ Last(op'.path) = op'.goal
         /\ \A i \in 1..(Len(op'.path) - 1) :
               LET lane_id == <<op'.path[i], op'.path[i + 1]>>
                   window  == <<op'.robot, op'.arr[i], op'.arr[i + 1]>>
               IN /\ lane_id \in LaneIds
                  /\ op'.arr[i + 1] = op'.arr[i]
                       + calculate_distance(lane_id[1], lane_id[2]) \div RobotSpeed
                  /\ Count(Res(lane_reservations', lane_id), window)
                       > Count(Res(lane_reservations, lane_id), window)]_vars

\* C29 witness: a search made while the other robot holds a reservation
\* returned a route of two lanes.
TwoLaneRouteReturned ==
    /\ op.name = "find_shortest_path"
    /\ Len(op.path) = 3
    /\ \E r \in Robots \ {op.robot} : HoldsReservation(lane_reservations, r)

\* The lanes of a route.
LanesOf(p) == {<<p[i], p[i + 1]>> : i \in 1..(Len(p) - 1)}

\* C30: every reserve_lane call that returned True during a
\* find_shortest_path call has its reservation in the store, under the
\* requesting robot's id, when the call returns: the lane's list is the one
\* before the call followed by the windows granted on that lane in the
\* order of the calls, whether or not the lane is on the returned route and
\* whether or not a route was returned.
SearchKeepsItsReservations ==
    [][op'.name = "find_shortest_path" =>
         /\ \A i \in DOMAIN op'.made :
               \E k \in DOMAIN Res(lane_reservations', op'.made[i][1]) :
                  Res(lane_reservations', op'.made[i][1])[k]
                     = <<op'.robot, op'.made[i][2], op'.made[i][3]>>
         /\ \A l \in DOMAIN lane_reservations' :
               Len(lane_reservations'[l])
                  = Len(Res(lane_reservations, l))
                    + Cardinality({i \in DOMAIN op'.made : op'.made[i][1] = l})
         /\ \A l \in DOMAIN lane_reservations :
               /\ l \in DOMAIN lane_reservations'
               /\ SubSeq(lane_reservations'[l], 1, Len(lane_reservations[l]))
                     = lane_reservations[l]]_vars

\* C30 witness: a search that returned no route made a reservation.
FailedSearchLeftReservation ==
    /\ op.name = "find_shortest_path"
    /\ op.path = <<>>
    /\ op.made # <<>>
    /\ \E i \in DOMAIN op.made :
          \E k \in DOMAIN Res(lane_reservations, op.made[i][1]) :
             Res(lane_reservations, op.made[i][1])[k]
                = <<op.robot, op.made[i][2], op.made[i][3]>>

\* A search that returned a route made a reservation on a lane that is not
\* on the route.
OffRouteReservationLeft ==
    /\ op.name = "find_shortest_path"
    /\ op.path # <<>>
    /\ \E i \in DOMAIN op.made : op.made[i][1] \notin LanesOf(op.path)

\* No element occurs twice in the sequence.
NoRepeat(seq) == \A i, j \in DOMAIN seq : seq[i] = seq[j] => i = j

\* C31: within one find_shortest_path call no vertex is expanded twice and
\* no lane is passed to reserve_lane twice; the call ends after at most one
\* expansion per vertex and one attempt per lane of the graph.
VertexExpandedOnce ==
    [][op'.name = "find_shortest_path" =>
         /\ NoRepeat(op'.expanded)
         /\ NoRepeat(op'.tried)
         /\ \A i \in DOMAIN op'.tried : op'.tried[i] \in LaneIds
         /\ Len(op'.expanded) <= Cardinality(VertexIds)
         /\ Len(op'.tried) <= Len(lanes)]_vars

\* C31 witness: a search popped a vertex a second time, after a cheaper
\* discovery of it had been expanded, and did not expand it again.
ClosedVertexPoppedAgain ==
    /\ op.name = "find_shortest_path"
    /\ \E i, j \in DOMAIN op.pops : i < j /\ op.pops[i].v = op.pops[j].v
    /\ NoRepeat(op.expanded)

\* C32: every heappop of a search takes, among the entries of the heap
\* with the same f_score, the one that was inserted first.
TiesPoppedInInsertionOrder ==
    [][op'.name = "find_shortest_path" =>
         \A i \in DOMAIN op'.pops :
            \A n \in op'.pops[i].ties : op'.pops[i].seq <= n]_vars

\* The handlers of the robots: a task, a retry, a poll, a step.
MovementHandlers == {"assign_task", "retry", "poll", "step"}

\* The first step() of a lane in the trace comes after a granted
\* reserve_lane of the same robot for the same lane, at the same store time.
StartFollowsGrant(trace, i) ==
    \E j \in 1..(i - 1) :
       /\ trace[j].ev = "reserve"
       /\ trace[j].ret
       /\ trace[j].robot = trace[i].robot
       /\ trace[j].lane = trace[i].lane
       /\ trace[j].time = trace[i].time
       /\ \A k \in (j + 1)..(i - 1) : trace[k].ev # "reserve"

\* C33: a robot starts the steps of a lane only after its reserve_lane call
\* for exactly that lane at the store's current time has returned True:
\* every first step() follows such a call in its handler, every step
\* callback put on the event loop belongs to a lane so started, and
\* current_vertex is only ever set to the end of the lane of the step that
\* ran.
TraversalGatedByReservation ==
    [][op'.name \in MovementHandlers =>
         /\ \A i \in DOMAIN op'.trace :
               /\ op'.trace[i].ev = "start" => StartFollowsGrant(op'.trace, i)
               /\ op'.trace[i].ev = "move" =>
                     /\ op'.fired.kind = "step"
                     /\ op'.trace[i].lane[2] = op'.fired.lane[2]
         /\ \A tm \in BagToSet(timers') :
               (tm.kind = "step" /\ CopiesIn(tm, timers') > CopiesIn(tm, timers)) =>
                  \/ \E i \in DOMAIN op'.trace :
                        /\ op'.trace[i].ev = "start"
                        /\ op'.trace[i].robot = tm.robot
                        /\ op'.trace[i].lane = tm.lane
                  \/ /\ op'.fired.kind = "step"
                     /\ op'.fired.lane = tm.lane
                     /\ op'.fired.robot = tm.robot]_vars

\* C33 witness: a poll was granted its lane and the steps of that lane
\* began in the same handler.
PollGrantStartsSteps ==
    /\ op.name = "poll"
    /\ \E i \in DOMAIN op.trace : op.trace[i].ev = "start"

\* The positions of the events of a kind in a trace.
EventsOf(trace, ev) == {i \in DOMAIN trace : trace[i].ev = ev}

\* C34: once the low-battery branch has turned the robot to a charger and
\* a route to it was found, carrying out that route does not take the
\* branch again: a handler takes it at most once, without running into the
\* recursion limit, and after it the steps of the route's first lane begin
\* or the robot waits for that lane.
ChargerSearchIssuedOnce ==
    [][op'.name \in MovementHandlers =>
         /\ Cardinality(EventsOf(op'.trace, "seek")) <= 1
         /\ ~op'.overflow
         /\ \A i \in EventsOf(op'.trace, "seek") :
               robots'[op'.robot].path # <<>> =>
                  \/ \E k \in EventsOf(op'.trace, "start") : k > i
                  \/ robots'[op'.robot].status = "waiting"]_vars

\* C35: every battery decrement for a lane is followed, in the same
\* handler and before any other decrement, by the first step() of that
\* lane, so the battery is only charged for lanes the robot sets out on.
DrainFollowedByTraversal ==
    [][op'.name \in MovementHandlers =>
         \A i \in EventsOf(op'.trace, "drain") :
            \E k \in EventsOf(op'.trace, "start") :
               /\ k > i
               /\ op'.trace[k].lane = op'.trace[i].lane
               /\ \A n \in EventsOf(op'.trace, "drain") : ~(i < n /\ n < k)]_vars

\* C36: the result of reserve_lane and the reservations after it are fixed
\* by the reservations before it, whatever the waiting queues hold: the
\* lane is granted exactly when no reservation blocks it, the granted
\* window is appended, and the queues stay as they are.
StoreIgnoresWaitQueues ==
    [][op'.name = "reserve_lane" =>
         LET lr1     == WithLaneKey(lane_reservations, op'.lane)
             blocked == \/ BlockedByOpposite(lr1, op'.lane, op'.robot, op'.start, op'.end)
                        \/ BlockedBySameLane(lr1, op'.lane, op'.robot, op'.start, op'.end)
         IN /\ op'.ret = ~blocked
            /\ lane_reservations' =
                  IF blocked THEN lr1
                  ELSE [lr1 EXCEPT ![op'.lane] =
                          Append(@, <<op'.robot, op'.start, op'.end>>)]
            /\ waiting_queues' = waiting_queues]_vars

\* C36 witness: a robot that is not in the queue of the lane's start vertex
\* was granted the lane while another robot is at the head of that queue.
LaneGrantedPastQueueHead ==
    /\ op.name = "reserve_lane"
    /\ op.ret
    /\ QueueAt(waiting_queues, op.lane[1]) # <<>>
    /\ QueueAt(waiting_queues, op.lane[1])[1][1] # op.robot
    /\ ~Enqueued(waiting_queues, op.lane[1], op.robot)

\* C37: a reserve_lane call that returns False leaves lane_reservations
\* (its lane keys included), lane_directions, waiting_queues and
\* current_time as they were.
DeniedLeavesStoreUnchanged ==
    [][(op'.name = "reserve_lane" /\ ~op'.ret) =>
         /\ lane_reservations' = lane_reservations
         /\ lane_directions' = lane_directions
         /\ waiting_queues' = waiting_queues
         /\ current_time' = current_time]_vars

\* The robot r has a poll pending for the lane l and shows "waiting".
WaitingFor(r, l) ==
    /\ robots[r].status = "waiting"
    /\ \E tm \in BagToSet(timers) : tm.kind = "poll" /\ tm.robot = r /\ tm.lane = l

\* Every reservation on l and on its opposite ends within the clock's range.
BlockersExpire(l) ==
    \A k \in {l, OppositeLane(l)} :
       \A i \in DOMAIN Res(lane_reservations, k) :
          Res(lane_reservations, k)[i][3] <= MaxWall

\* A poll of r for l was granted.
WaitGranted(r, l) ==
    /\ op.name = "poll"
    /\ op.robot = r
    /\ op.fired.lane = l
    /\ op.ret

\* The handler that led to the state added a reservation on l or on its
\* opposite.
NewReservation(l) == op.added \cap {l, OppositeLane(l)} # {}

\* C38: a robot waiting for a lane is eventually granted it by one of its
\* polls and set to "moving", unless a reservation is added on that lane or
\* on its opposite in the meantime.
WaitingRobotEventuallyMoves ==
    \A r \in Robots, l \in WaitLanes :
       [](WaitingFor(r, l) /\ BlockersExpire(l)
            => <>(WaitGranted(r, l) \/ NewReservation(l)))

\* C38 witness: after the clock moved on, a poll of a robot that waited for
\* a lane was granted the lane and the robot shows "moving".
WaitEndedByPoll ==
    \E r \in Robots, l \in WaitLanes :
       /\ WaitGranted(r, l)
       /\ robots[r].status = "moving"
       /\ op.time > WallStart

\* C39: every lane a handler passes to reserve_lane in _animate_movement or
\* in its poll, and every change of current_vertex, is a directed lane of
\* the navigation graph.
MovementStaysOnLanes ==
    \A i \in DOMAIN op.trace :
       LET e == op.trace[i] IN
       /\ e.ev = "reserve" => e.lane \in LaneIds
       /\ (e.ev = "move" /\ e.lane[1] # e.lane[2]) => e.lane \in LaneIds

\* The callbacks of the kinds pending for the robot r.
PendingKinds(bag, r, kinds) ==
    {tm \in BagToSet(bag) : tm.robot = r /\ tm.kind \in kinds}

\* C40: after every handler, a robot of the fleet that shows "idle" has no
\* step, poll or retry pending, a robot with a step pending shows "moving"
\* or "seeking_charger", and a charge tick does not turn a "moving" robot
\* to "idle".
StatusAgreesWithActivity ==
    [][\A r \in Robots :
         robots'[r].present =>
           /\ robots'[r].status = "idle"
                => PendingKinds(timers', r, {"step", "poll", "retry"}) = {}
           /\ PendingKinds(timers', r, {"step"}) # {}
                => robots'[r].status \in {"moving", "seeking_charger"}
           /\ (op'.name = "charge" /\ op'.robot = r /\ robots[r].status = "moving")
                => robots'[r].status # "idle"]_vars

====
